---- MODULE Spec2Model ----
(***************************************************************************)
(* Model of the video-conference signaling backend:                        *)
(*   - Room         (models/Room.js, src/unnamed/part_001)                 *)
(*   - RoomManager  (src/src/services/RoomManager.js, lines 1-150)         *)
(*   - WebRTCManager(src/src/services/WebRTCManager.js)                    *)
(*   - socket handler (src/src/services/RoomManager.js, lines 151-680)     *)
(*   - POST /api/rooms (src/src/server.js)                                 *)
(*   - checkSocketRateLimit, roomCreationLimiter (src/unnamed/part_000)    *)
(* JavaScript Maps keep insertion order; the participant map of a room is  *)
(* a sequence of user records in insertion order.                          *)
(***************************************************************************)
EXTENDS Integers, Sequences, FiniteSets, TLC

VARIABLES
    rooms,          \* RoomManager.rooms: roomId -> Room
    userRoomMap,    \* RoomManager.userRoomMap: userId -> roomId
    nextRoomId,     \* number of identifiers uuidv4() has handed out
    connections,    \* WebRTCManager.connections: roomId -> (userId -> entry)
    pendingOffers,  \* WebRTCManager.pendingOffers: connectionId -> offer data
    now,            \* the clock read by new Date(), in milliseconds
    sockets,        \* per session: userId / roomId binding, socket.io rooms
    emitted,        \* events emitted while handling the last inbound event
    offersHandled,  \* history: <<roomId, from, to>> of the direct handleOffer calls
    offersRelayed,  \* history: <<session, sender>> of every offer event delivered
    socketEventLimiter, \* rateLimiter.js socketEventLimiter: key -> count, resetTime
    limiterWindow,  \* history: per key, start of the window and calls accepted in it
    last            \* the last operation, its arguments and its result

vars == <<rooms, userRoomMap, nextRoomId, connections, pendingOffers, now,
          sockets, emitted, offersHandled, offersRelayed, socketEventLimiter,
          limiterWindow, last>>

registryVars == <<rooms, userRoomMap, nextRoomId>>
trackerVars == <<connections, pendingOffers>>
historyVars == <<offersHandled, offersRelayed>>
limiterVars == <<socketEventLimiter, limiterWindow>>

-----------------------------------------------------------------------------
(* Bounds of the model *)

\* rooms createRoom may allocate in one run (uuidv4 never repeats)
MaxRooms == 2

\* clock ticks of TickMs the model lets pass
MaxTicks == 2

-----------------------------------------------------------------------------
(* Program constants and input domains *)

DefaultMaxUsers == 10
MaxUsersCeiling == 50
OfferMaxAgeMs == 30000

\* max of roomCreationLimiter: room creations per address and hour
RoomCreationMax == 10

\* the default maxEvents and windowMs of checkSocketRateLimit
DefaultMaxEvents == 50
DefaultWindowMs == 60000

\* the clock advances in steps of the expiry threshold, so that a pending
\* offer is seen at ages 0, exactly the threshold, and beyond it
TickMs == OfferMaxAgeMs

\* participant identifiers (socket ids in the socket handler)
UserIds == {"a", "b", "c"}

RoomIds == 1..MaxRooms

\* rooms and participants the tracker is driven with when called directly
TrackerRoomIds == {1}
TrackerUserIds == {"a", "b"}

\* sessions of the socket handler; a session's participant id is its
\* socket.id, and the target of an offer or answer is another session
SocketIds == {"a", "b"}

\* the settings of the POST /api/rooms requests (maxUsers 0: not given)
HttpSettings ==
    {[maxUsers |-> 0, requirePassword |-> FALSE],
     [maxUsers |-> 1, requirePassword |-> FALSE],
     [maxUsers |-> 0, requirePassword |-> TRUE]}

\* JavaScript null / undefined
Null == "null"

\* the settings of the createRoom calls; given tells whether the settings
\* object has a maxUsers property at all (without one, maxUsers reads as
\* undefined, which is falsy at RoomManager.js:20 as 0 is)
CreateSettings ==
    {[maxUsers |-> 0, given |-> FALSE, requirePassword |-> FALSE],
     [maxUsers |-> 0, given |-> TRUE, requirePassword |-> FALSE],
     [maxUsers |-> -1, given |-> TRUE, requirePassword |-> FALSE],
     [maxUsers |-> 2, given |-> TRUE, requirePassword |-> FALSE],
     [maxUsers |-> 2, given |-> TRUE, requirePassword |-> TRUE],
     [maxUsers |-> 60, given |-> TRUE, requirePassword |-> FALSE]}

\* the password a protected room is created with, and what joiners supply
RoomPassword == "pw"
JoinPasswords == {Null, RoomPassword}

NoUser == [userId |-> "", role |-> "", isAudioEnabled |-> FALSE,
           isVideoEnabled |-> FALSE, isScreenSharing |-> FALSE]

Min(x, y) == IF x <= y THEN x ELSE y

\* f without key k
MapDelete(f, k) == [x \in (DOMAIN f) \ {k} |-> f[x]]

\* f with key k set to v (Map.set)
MapSet(f, k, v) == [x \in (DOMAIN f) \cup {k} |-> IF x = k THEN v ELSE f[x]]

EmptyMap == [x \in {} |-> 0]

-----------------------------------------------------------------------------
(* Room *)

NewRoom ==
    [users |-> <<>>, isActive |-> TRUE, maxUsers |-> DefaultMaxUsers,
     requirePassword |-> FALSE, password |-> Null, recordingEnabled |-> FALSE]

\* position of userId in the participant map, 0 when absent
UserIndex(users, userId) ==
    IF \E i \in 1..Len(users) : users[i].userId = userId
    THEN CHOOSE i \in 1..Len(users) : users[i].userId = userId
    ELSE 0

RoomHasUser(room, userId) == UserIndex(room.users, userId) # 0

RoomGetUser(room, userId) ==
    IF RoomHasUser(room, userId)
    THEN room.users[UserIndex(room.users, userId)]
    ELSE NoUser

RoomUserIds(room) == {room.users[i].userId : i \in 1..Len(room.users)}

RoomHosts(room) ==
    {room.users[i].userId : i \in {j \in 1..Len(room.users) : room.users[j].role = "host"}}

\* Room.addUser without the capacity test of line 20
RoomAddUserNoCapacityCheck(room, userId) ==
    IF RoomHasUser(room, userId)
    THEN [error |-> "User already in room", room |-> room, user |-> NoUser]
    ELSE LET user == [userId |-> userId,
                      role |-> IF Len(room.users) = 0 THEN "host" ELSE "participant",
                      isAudioEnabled |-> TRUE,
                      isVideoEnabled |-> TRUE,
                      isScreenSharing |-> FALSE]
         IN [error |-> "",
             room |-> [room EXCEPT !.users = Append(room.users, user)],
             user |-> user]

\* Room.addUser: error is "" on success, else the thrown message
RoomAddUser(room, userId) ==
    IF Len(room.users) >= room.maxUsers
    THEN [error |-> "Room is full", room |-> room, user |-> NoUser]
    ELSE IF RoomHasUser(room, userId)
    THEN [error |-> "User already in room", room |-> room, user |-> NoUser]
    ELSE LET user == [userId |-> userId,
                      role |-> IF Len(room.users) = 0 THEN "host" ELSE "participant",
                      isAudioEnabled |-> TRUE,
                      isVideoEnabled |-> TRUE,
                      isScreenSharing |-> FALSE]
         IN [error |-> "",
             room |-> [room EXCEPT !.users = Append(room.users, user)],
             user |-> user]

SeqRemoveAt(s, i) == [j \in 1..(Len(s) - 1) |-> IF j < i THEN s[j] ELSE s[j + 1]]

\* Room.removeUser with the new host taken from the end of the map
RoomRemoveUserLastHost(room, userId) ==
    LET i == UserIndex(room.users, userId) IN
    IF i = 0
    THEN [room |-> room, user |-> NoUser]
    ELSE LET user == room.users[i]
             rest == SeqRemoveAt(room.users, i)
             promoted == IF user.role = "host" /\ Len(rest) > 0
                         THEN [rest EXCEPT ![Len(rest)].role = "host"]
                         ELSE rest
         IN [room |-> [room EXCEPT !.users = promoted], user |-> user]

\* Room.removeUser without host succession
RoomRemoveUserNoSuccession(room, userId) ==
    LET i == UserIndex(room.users, userId) IN
    IF i = 0
    THEN [room |-> room, user |-> NoUser]
    ELSE [room |-> [room EXCEPT !.users = SeqRemoveAt(room.users, i)],
          user |-> room.users[i]]

\* Room.removeUser: user is NoUser when the participant is absent
RoomRemoveUser(room, userId) ==
    LET i == UserIndex(room.users, userId) IN
    IF i = 0
    THEN [room |-> room, user |-> NoUser]
    ELSE LET user == room.users[i]
             rest == SeqRemoveAt(room.users, i)
             promoted == IF user.role = "host" /\ Len(rest) > 0
                         THEN [rest EXCEPT ![1].role = "host"]
                         ELSE rest
         IN [room |-> [room EXCEPT !.users = promoted], user |-> user]

\* updateUserMedia that treats every media type as 'audio'
RoomUpdateUserMediaAudioOnly(room, userId, mediaType, enabled) ==
    IF RoomHasUser(room, userId)
    THEN [room |-> [room EXCEPT
                      !.users[UserIndex(room.users, userId)].isAudioEnabled = enabled],
          found |-> TRUE]
    ELSE [room |-> room, found |-> FALSE]

\* Room.updateUserMedia: found is FALSE when it returns null
RoomUpdateUserMedia(room, userId, mediaType, enabled) ==
    IF RoomHasUser(room, userId)
    THEN LET i == UserIndex(room.users, userId) IN
         [room |-> IF mediaType = "audio"
                   THEN [room EXCEPT !.users[i].isAudioEnabled = enabled]
                   ELSE IF mediaType = "video"
                   THEN [room EXCEPT !.users[i].isVideoEnabled = enabled]
                   ELSE IF mediaType = "screen"
                   THEN [room EXCEPT !.users[i].isScreenSharing = enabled]
                   ELSE room,
          found |-> TRUE]
    ELSE [room |-> room, found |-> FALSE]

RoomIsEmpty(room) == Len(room.users) = 0

ValidatePassword(room, password) ==
    IF ~room.requirePassword THEN TRUE ELSE room.password = password

-----------------------------------------------------------------------------
(* RoomManager *)
\* createRoom without the Math.min of line 20
CreatedRoomNoCeiling(maxUsers, requirePassword) ==
    LET r1 == IF maxUsers # 0
              THEN [NewRoom EXCEPT !.maxUsers = maxUsers]
              ELSE NewRoom
    IN IF requirePassword
       THEN [r1 EXCEPT !.requirePassword = TRUE, !.password = RoomPassword]
       ELSE r1

\* RoomManager.createRoom applied to a fresh Room
CreatedRoom(maxUsers, requirePassword) ==
    LET r1 == IF maxUsers # 0
              THEN [NewRoom EXCEPT !.maxUsers = Min(maxUsers, MaxUsersCeiling)]
              ELSE NewRoom
    IN IF requirePassword
       THEN [r1 EXCEPT !.requirePassword = TRUE, !.password = RoomPassword]
       ELSE r1

\* RoomManager.leaveRoom that keeps the emptied room in the directory
RegistryLeaveKeepEmpty(rms, urm, userId) ==
    IF userId \notin DOMAIN urm
    THEN [rooms |-> rms, userRoomMap |-> urm, found |-> FALSE,
          roomId |-> 0, room |-> NewRoom, user |-> NoUser]
    ELSE LET roomId == urm[userId] IN
         IF roomId \notin DOMAIN rms
         THEN [rooms |-> rms, userRoomMap |-> urm, found |-> FALSE,
               roomId |-> 0, room |-> NewRoom, user |-> NoUser]
         ELSE LET rem == RoomRemoveUser(rms[roomId], userId)
              IN [rooms |-> [rms EXCEPT ![roomId] = rem.room],
                  userRoomMap |-> MapDelete(urm, userId),
                  found |-> TRUE,
                  roomId |-> roomId, room |-> rem.room, user |-> rem.user]

\* RoomManager.leaveRoom: found is FALSE for the null return
RegistryLeave(rms, urm, userId) ==
    IF userId \notin DOMAIN urm
    THEN [rooms |-> rms, userRoomMap |-> urm, found |-> FALSE,
          roomId |-> 0, room |-> NewRoom, user |-> NoUser]
    ELSE LET roomId == urm[userId] IN
         IF roomId \notin DOMAIN rms
         THEN [rooms |-> rms, userRoomMap |-> urm, found |-> FALSE,
               roomId |-> 0, room |-> NewRoom, user |-> NoUser]
         ELSE LET rem == RoomRemoveUser(rms[roomId], userId)
              IN [rooms |-> IF RoomIsEmpty(rem.room)
                            THEN MapDelete(rms, roomId)
                            ELSE [rms EXCEPT ![roomId] = rem.room],
                  userRoomMap |-> MapDelete(urm, userId),
                  found |-> TRUE,
                  roomId |-> roomId, room |-> rem.room, user |-> rem.user]

\* RoomManager.joinRoom without the leaveRoom(userId) of line 54
RegistryJoinNoLeave(rms, urm, roomId, userId, password) ==
    IF roomId \notin DOMAIN rms
    THEN [rooms |-> rms, userRoomMap |-> urm, error |-> "Room not found",
          room |-> NewRoom, user |-> NoUser]
    ELSE IF ~rms[roomId].isActive
    THEN [rooms |-> rms, userRoomMap |-> urm, error |-> "Room is not active",
          room |-> NewRoom, user |-> NoUser]
    ELSE IF ~ValidatePassword(rms[roomId], password)
    THEN [rooms |-> rms, userRoomMap |-> urm, error |-> "Invalid room password",
          room |-> NewRoom, user |-> NoUser]
    ELSE LET added == RoomAddUser(rms[roomId], userId) IN
         IF added.error # ""
         THEN [rooms |-> rms, userRoomMap |-> urm, error |-> added.error,
               room |-> NewRoom, user |-> NoUser]
         ELSE [rooms |-> [rms EXCEPT ![roomId] = added.room],
               userRoomMap |-> MapSet(urm, userId, roomId),
               error |-> "", room |-> added.room, user |-> added.user]

\* joinRoom with the leaveRoom of line 54 moved in front of the password test
RegistryJoinLeaveFirst(rms, urm, roomId, userId, password) ==
    LET left == RegistryLeave(rms, urm, userId) IN
    IF roomId \in DOMAIN rms /\ ~ValidatePassword(rms[roomId], password)
    THEN [rooms |-> left.rooms, userRoomMap |-> left.userRoomMap,
          error |-> "Invalid room password", room |-> NewRoom, user |-> NoUser]
    ELSE RegistryJoinNoLeave(left.rooms, left.userRoomMap, roomId, userId, password)

\* RoomManager.joinRoom: error is "" on success, else the thrown message.
\* `room` is the Room object looked up at line 39; when the leaveRoom of
\* line 54 empties and deletes that very room, addUser still acts on the
\* object, which is then no longer in the directory.
RegistryJoin(rms, urm, roomId, userId, password) ==
    IF roomId \notin DOMAIN rms
    THEN [rooms |-> rms, userRoomMap |-> urm, error |-> "Room not found",
          room |-> NewRoom, user |-> NoUser]
    ELSE IF ~rms[roomId].isActive
    THEN [rooms |-> rms, userRoomMap |-> urm, error |-> "Room is not active",
          room |-> NewRoom, user |-> NoUser]
    ELSE IF ~ValidatePassword(rms[roomId], password)
    THEN [rooms |-> rms, userRoomMap |-> urm, error |-> "Invalid room password",
          room |-> NewRoom, user |-> NoUser]
    ELSE LET left == RegistryLeave(rms, urm, userId)
             \* the Room object after leaveRoom's mutation
             room == IF left.found /\ left.roomId = roomId
                     THEN left.room
                     ELSE rms[roomId]
             added == RoomAddUser(room, userId)
         IN IF added.error # ""
            THEN [rooms |-> left.rooms, userRoomMap |-> left.userRoomMap,
                  error |-> added.error, room |-> NewRoom, user |-> NoUser]
            ELSE [rooms |-> IF roomId \in DOMAIN left.rooms
                            THEN [left.rooms EXCEPT ![roomId] = added.room]
                            ELSE left.rooms,
                  userRoomMap |-> MapSet(left.userRoomMap, userId, roomId),
                  error |-> "", room |-> added.room, user |-> added.user]

\* RoomManager.getRoom: TRUE when it returns a room, FALSE for undefined
GetRoom(rms, roomId) == roomId \in DOMAIN rms

\* RoomManager.updateUserMedia (through getUserRoom): found is FALSE when
\* it returns null
RegistryUpdateUserMedia(rms, urm, userId, mediaType, enabled) ==
    IF userId \in DOMAIN urm /\ urm[userId] \in DOMAIN rms
    THEN LET res == RoomUpdateUserMedia(rms[urm[userId]], userId, mediaType, enabled)
         IN [rooms |-> [rms EXCEPT ![urm[userId]] = res.room], found |-> res.found]
    ELSE [rooms |-> rms, found |-> FALSE]

\* RoomManager.cleanupEmptyRooms
RegistryCleanup(rms) ==
    [r \in {x \in DOMAIN rms : ~RoomIsEmpty(rms[x])} |-> rms[r]]

\* RoomManager.getStats().totalUsers
RegistryTotalUsers == Cardinality(DOMAIN userRoomMap)

-----------------------------------------------------------------------------
(* WebRTCManager *)

\* the entry addUser stores for a participant; peers maps peerId -> link.
\* socketId, isInitiator and the links' createdAt are stored by the code and
\* never read back by any operation; they are left out.
NewEntry ==
    [peers |-> EmptyMap,
     mediaState |-> [audio |-> TRUE, video |-> TRUE, screen |-> FALSE]]

\* `${fromUserId}-${toUserId}`
ConnectionId(fromUserId, toUserId) == fromUserId \o "-" \o toUserId

\* connections.get(roomId) exists and has(userId)
Tracked(conns, roomId, userId) ==
    roomId \in DOMAIN conns /\ userId \in DOMAIN conns[roomId]

\* WebRTCManager.addUser (with initializeRoom)
TrackerAddUser(conns, roomId, userId) ==
    LET bucket == IF roomId \in DOMAIN conns THEN conns[roomId] ELSE EmptyMap
    IN IF userId \in DOMAIN bucket
       THEN MapSet(conns, roomId, bucket)
       ELSE MapSet(conns, roomId, MapSet(bucket, userId, NewEntry))

\* removeUser that keeps the room's bucket when its last entry goes
TrackerRemoveUserKeepBucket(conns, roomId, userId) ==
    IF Tracked(conns, roomId, userId)
    THEN [connections |-> [conns EXCEPT ![roomId] = MapDelete(conns[roomId], userId)],
          removed |-> TRUE]
    ELSE [connections |-> conns, removed |-> FALSE]

\* WebRTCManager.removeUser: removed is its boolean result
TrackerRemoveUser(conns, roomId, userId) ==
    IF Tracked(conns, roomId, userId)
    THEN LET bucket == MapDelete(conns[roomId], userId)
         IN [connections |-> IF DOMAIN bucket = {}
                             THEN MapDelete(conns, roomId)
                             ELSE [conns EXCEPT ![roomId] = bucket],
             removed |-> TRUE]
    ELSE [connections |-> conns, removed |-> FALSE]

\* updateMediaState that reports success without writing the flag
TrackerUpdateMediaStateNoWrite(conns, roomId, userId, mediaType, enabled) ==
    [connections |-> conns, found |-> Tracked(conns, roomId, userId)]

\* WebRTCManager.updateMediaState: found is FALSE when it returns null
TrackerUpdateMediaState(conns, roomId, userId, mediaType, enabled) ==
    IF Tracked(conns, roomId, userId)
    THEN [connections |->
             [conns EXCEPT ![roomId][userId].mediaState[mediaType] = enabled],
          found |-> TRUE]
    ELSE [connections |-> conns, found |-> FALSE]

\* createPeerConnection that stores the link under the target's entry as well
CreatePeerConnectionBothEnds(conns, roomId, fromUserId, toUserId) ==
    IF ~Tracked(conns, roomId, fromUserId) \/ ~Tracked(conns, roomId, toUserId)
    THEN [connections |-> conns, connectionId |-> Null]
    ELSE LET connectionId == ConnectionId(fromUserId, toUserId)
             link == [connectionId |-> connectionId, status |-> "connecting"]
             stored == [conns EXCEPT ![roomId][fromUserId].peers =
                           MapSet(conns[roomId][fromUserId].peers, toUserId, link)]
         IN [connections |->
                [stored EXCEPT ![roomId][toUserId].peers =
                    MapSet(stored[roomId][toUserId].peers, fromUserId, link)],
             connectionId |-> connectionId]

\* WebRTCManager.createPeerConnection: connectionId is Null for a null return
CreatePeerConnection(conns, roomId, fromUserId, toUserId) ==
    IF roomId \notin DOMAIN conns
    THEN [connections |-> conns, connectionId |-> Null]
    ELSE IF fromUserId \notin DOMAIN conns[roomId] \/ toUserId \notin DOMAIN conns[roomId]
    THEN [connections |-> conns, connectionId |-> Null]
    ELSE LET connectionId == ConnectionId(fromUserId, toUserId)
             link == [connectionId |-> connectionId, status |-> "connecting"]
         IN [connections |->
                [conns EXCEPT ![roomId][fromUserId].peers =
                    MapSet(conns[roomId][fromUserId].peers, toUserId, link)],
             connectionId |-> connectionId]

\* WebRTCManager.handleOffer at clock value time
TrackerHandleOffer(conns, pend, roomId, fromUserId, toUserId, time) ==
    LET created == CreatePeerConnection(conns, roomId, fromUserId, toUserId)
    IN IF created.connectionId # Null
       THEN [connections |-> created.connections,
             pendingOffers |->
                MapSet(pend, created.connectionId,
                       [roomId |-> roomId, fromUserId |-> fromUserId,
                        toUserId |-> toUserId, timestamp |-> time]),
             connectionId |-> created.connectionId]
       ELSE [connections |-> conns, pendingOffers |-> pend, connectionId |-> Null]

\* handleAnswer that flips a link already connected back to connecting
TrackerHandleAnswerFlipping(conns, roomId, fromUserId, toUserId) ==
    IF /\ roomId \in DOMAIN conns
       /\ fromUserId \in DOMAIN conns[roomId]
       /\ toUserId \in DOMAIN conns[roomId][fromUserId].peers
    THEN [connections |->
             [conns EXCEPT ![roomId][fromUserId].peers[toUserId].status =
                 IF @ = "connected" THEN "connecting" ELSE "connected"],
          success |-> TRUE]
    ELSE [connections |-> conns, success |-> FALSE]

\* WebRTCManager.handleAnswer: the link it looks up is the one stored under
\* the answering participant (fromUserId) towards toUserId
TrackerHandleAnswer(conns, roomId, fromUserId, toUserId) ==
    IF /\ roomId \in DOMAIN conns
       /\ fromUserId \in DOMAIN conns[roomId]
       /\ toUserId \in DOMAIN conns[roomId][fromUserId].peers
    THEN [connections |->
             [conns EXCEPT ![roomId][fromUserId].peers[toUserId].status = "connected"],
          success |-> TRUE]
    ELSE [connections |-> conns, success |-> FALSE]

\* the test of line 183 with >= in place of >
IsExpiredInclusive(offerData, time) == time - offerData.timestamp >= OfferMaxAgeMs

\* now - offerData.timestamp > 30000
IsExpired(offerData, time) == time - offerData.timestamp > OfferMaxAgeMs

\* cleanupPendingOffers that sweeps only the expired offers whose offerer and
\* target are both still tracked
TrackerCleanupPendingOffersTrackedOnly(conns, pend, time) ==
    LET expiredOffers ==
            {c \in DOMAIN pend :
                /\ IsExpired(pend[c], time)
                /\ Tracked(conns, pend[c].roomId, pend[c].fromUserId)
                /\ Tracked(conns, pend[c].roomId, pend[c].toUserId)}
    IN [connections |-> conns,
        pendingOffers |-> [c \in (DOMAIN pend) \ expiredOffers |-> pend[c]],
        count |-> Cardinality(expiredOffers)]

\* cleanupPendingOffers that also retracts the link of every expired offer
TrackerCleanupPendingOffersRetracting(conns, pend, time) ==
    LET expiredOffers == {c \in DOMAIN pend : IsExpired(pend[c], time)}
        Retracted(r, u, x) ==
            \E c \in expiredOffers :
                /\ pend[c].roomId = r
                /\ pend[c].fromUserId = u
                /\ pend[c].toUserId = x
        Kept(r, u) == {x \in DOMAIN conns[r][u].peers : ~Retracted(r, u, x)}
    IN [connections |->
           [r \in DOMAIN conns |->
              [u \in DOMAIN conns[r] |->
                 [peers |-> [x \in Kept(r, u) |-> conns[r][u].peers[x]],
                  mediaState |-> conns[r][u].mediaState]]],
        pendingOffers |-> [c \in (DOMAIN pend) \ expiredOffers |-> pend[c]],
        count |-> Cardinality(expiredOffers)]

\* WebRTCManager.cleanupPendingOffers: count is its return value; the method
\* reads and writes this.pendingOffers only, so connections comes back as it
\* went in
TrackerCleanupPendingOffers(conns, pend, time) ==
    LET expiredOffers == {c \in DOMAIN pend : IsExpired(pend[c], time)}
    IN [connections |-> conns,
        pendingOffers |-> [c \in (DOMAIN pend) \ expiredOffers |-> pend[c]],
        count |-> Cardinality(expiredOffers)]

\* WebRTCManager.getRoomConnections(roomId).totalConnections: the sum of
\* peers.size over the entries of the room's bucket (0 stands for the null
\* returned when the room has no bucket)
RoomTotalConnections(conns, roomId) ==
    IF roomId \notin DOMAIN conns
    THEN 0
    ELSE Cardinality({x \in (DOMAIN conns[roomId]) \X TrackerUserIds :
                         x[2] \in DOMAIN conns[roomId][x[1]].peers})

\* WebRTCManager.getStats().pendingOffers
StatsPendingOffers(pend) == Cardinality(DOMAIN pend)

\* status of the link stored under fromUserId towards toUserId, "" if none
LinkStatus(conns, roomId, fromUserId, toUserId) ==
    IF /\ Tracked(conns, roomId, fromUserId)
       /\ toUserId \in DOMAIN conns[roomId][fromUserId].peers
    THEN conns[roomId][fromUserId].peers[toUserId].status
    ELSE ""

-----------------------------------------------------------------------------
(* The record of the last operation *)

\* op, its arguments (room, user, peer), what it returned or threw (result),
\* the role of the user record it returned, the size of the room it returned,
\* prev: the room userRoomMap held for the user when it was called, and arg:
\* a further argument of the call (the password of a join, whether
\* settings.maxUsers was given to createRoom).
NoOp == [op |-> "init", room |-> 0, user |-> "", peer |-> "",
         result |-> "", role |-> "", size |-> 0, prev |-> 0, arg |-> ""]

LastWith(op, room, user, peer, result, role, size, prev, arg) ==
    [op |-> op, room |-> room, user |-> user, peer |-> peer,
     result |-> result, role |-> role, size |-> size, prev |-> prev,
     arg |-> arg]

Last(op, room, user, peer, result, role, size, prev) ==
    LastWith(op, room, user, peer, result, role, size, prev, "")

\* userRoomMap.get(userId), 0 when absent
UserRoomId(urm, userId) == IF userId \in DOMAIN urm THEN urm[userId] ELSE 0

-----------------------------------------------------------------------------
(* Initial state: the singletons right after construction *)

InitWith(sessions) ==
    /\ rooms = EmptyMap
    /\ userRoomMap = EmptyMap
    /\ nextRoomId = 1
    /\ connections = EmptyMap
    /\ pendingOffers = EmptyMap
    /\ now = 0
    /\ sockets = [s \in sessions |-> [userId |-> Null, roomId |-> 0,
                                    joined |-> {}, connected |-> TRUE]]
    /\ emitted = {}
    /\ offersHandled = {}
    /\ offersRelayed = {}
    /\ socketEventLimiter = EmptyMap
    /\ limiterWindow = EmptyMap
    /\ last = NoOp

Init == InitWith(SocketIds)

-----------------------------------------------------------------------------
(* RoomManager operations called directly *)

CreateRoom ==
    /\ nextRoomId <= MaxRooms
    /\ \E settings \in CreateSettings :
         /\ rooms' = MapSet(rooms, nextRoomId,
                            CreatedRoom(settings.maxUsers, settings.requirePassword))
         /\ last' = LastWith("createRoom", nextRoomId, "", "", "ok", "",
                             settings.maxUsers, 0,
                             IF settings.given THEN "maxUsers" ELSE "")
    /\ nextRoomId' = nextRoomId + 1
    /\ UNCHANGED <<limiterVars, userRoomMap, trackerVars, now, sockets,
                   emitted, historyVars>>

JoinRoom ==
    \E roomId \in RoomIds, userId \in UserIds, password \in JoinPasswords :
        LET res == RegistryJoin(rooms, userRoomMap, roomId, userId, password) IN
        /\ rooms' = res.rooms
        /\ userRoomMap' = res.userRoomMap
        /\ last' = LastWith("joinRoom", roomId, userId, "",
                            IF res.error = "" THEN "ok" ELSE res.error,
                            res.user.role, Len(res.room.users),
                            UserRoomId(userRoomMap, userId), password)
        /\ UNCHANGED <<limiterVars, nextRoomId, trackerVars, now, sockets,
                       emitted, historyVars>>

LeaveRoom ==
    \E userId \in UserIds :
        LET res == RegistryLeave(rooms, userRoomMap, userId) IN
        /\ rooms' = res.rooms
        /\ userRoomMap' = res.userRoomMap
        /\ last' = Last("leaveRoom", res.roomId, userId, "",
                        IF res.found THEN "ok" ELSE "null",
                        res.user.role, Len(res.room.users),
                        UserRoomId(userRoomMap, userId))
        /\ UNCHANGED <<limiterVars, nextRoomId, trackerVars, now, sockets,
                       emitted, historyVars>>

CleanupEmptyRooms ==
    /\ rooms' = RegistryCleanup(rooms)
    /\ last' = Last("cleanupEmptyRooms", 0, "", "", "ok", "",
                    Cardinality(DOMAIN rooms) - Cardinality(DOMAIN RegistryCleanup(rooms)),
                    0)
    /\ UNCHANGED <<limiterVars, userRoomMap, nextRoomId, trackerVars, now,
                   sockets, emitted,
                   historyVars>>

NextRegistry ==
    \/ CreateRoom
    \/ JoinRoom
    \/ LeaveRoom
    \/ CleanupEmptyRooms

SpecRegistry == Init /\ [][NextRegistry]_vars

-----------------------------------------------------------------------------
(* WebRTCManager operations called directly *)

AddUserIn(roomIds) ==
    \E roomId \in roomIds, userId \in TrackerUserIds :
        /\ connections' = TrackerAddUser(connections, roomId, userId)
        /\ last' = Last("addUser", roomId, userId, "", "ok", "", 0, 0)
        /\ UNCHANGED <<limiterVars, registryVars, pendingOffers, now,
                       sockets, emitted, historyVars>>

AddUser == AddUserIn(TrackerRoomIds)

RemoveUserIn(roomIds) ==
    \E roomId \in roomIds, userId \in TrackerUserIds :
        LET res == TrackerRemoveUser(connections, roomId, userId) IN
        /\ connections' = res.connections
        /\ last' = Last("removeUser", roomId, userId, "",
                        IF res.removed THEN "true" ELSE "false", "", 0, 0)
        /\ UNCHANGED <<limiterVars, registryVars, pendingOffers, now,
                       sockets, emitted, historyVars>>

RemoveUser == RemoveUserIn(TrackerRoomIds)

HandleOfferIn(roomIds) ==
    \E roomId \in roomIds, fromUserId \in TrackerUserIds, toUserId \in TrackerUserIds :
        LET res == TrackerHandleOffer(connections, pendingOffers, roomId,
                                      fromUserId, toUserId, now) IN
        /\ connections' = res.connections
        /\ pendingOffers' = res.pendingOffers
        /\ offersHandled' = offersHandled \cup {<<roomId, fromUserId, toUserId>>}
        /\ last' = Last("handleOffer", roomId, fromUserId, toUserId,
                        res.connectionId, "", 0, 0)
        /\ UNCHANGED <<limiterVars, registryVars, now, sockets, emitted,
                       offersRelayed>>

HandleOffer == HandleOfferIn(TrackerRoomIds)

HandleAnswer ==
    \E roomId \in TrackerRoomIds, fromUserId \in TrackerUserIds, toUserId \in TrackerUserIds :
        LET res == TrackerHandleAnswer(connections, roomId, fromUserId, toUserId) IN
        /\ connections' = res.connections
        /\ last' = Last("handleAnswer", roomId, fromUserId, toUserId,
                        IF res.success THEN "true" ELSE "false", "", 0, 0)
        /\ UNCHANGED <<limiterVars, registryVars, pendingOffers, now,
                       sockets, emitted, historyVars>>

CleanupPendingOffers ==
    LET res == TrackerCleanupPendingOffers(connections, pendingOffers, now) IN
    /\ connections' = res.connections
    /\ pendingOffers' = res.pendingOffers
    /\ last' = Last("cleanupPendingOffers", 0, "", "", "ok", "", res.count, 0)
    /\ UNCHANGED <<limiterVars, registryVars, now, sockets, emitted,
                   historyVars>>

\* time passes
Tick ==
    /\ now < MaxTicks * TickMs
    /\ now' = now + TickMs
    /\ last' = Last("tick", 0, "", "", "", "", 0, 0)
    /\ UNCHANGED <<limiterVars, registryVars, trackerVars, sockets, emitted,
                   historyVars>>

NextTracker ==
    \/ AddUser
    \/ RemoveUser
    \/ HandleOffer
    \/ HandleAnswer
    \/ CleanupPendingOffers
    \/ Tick

SpecTracker == Init /\ [][NextTracker]_vars

\* the tracker under the sweep timer: the clock of the model stops at
\* MaxTicks * TickMs, so offers arrive only while it can still advance past
\* their age limit, and then stop arriving
HandleOfferInTime ==
    /\ now + 2 * TickMs <= MaxTicks * TickMs
    /\ HandleOffer

NextSweep ==
    \/ AddUser
    \/ RemoveUser
    \/ HandleOfferInTime
    \/ HandleAnswer
    \/ CleanupPendingOffers
    \/ Tick

\* setInterval runs cleanupPendingOffers again and again, and time advances
SpecSweep ==
    /\ Init
    /\ [][NextSweep]_vars
    /\ WF_vars(CleanupPendingOffers)
    /\ WF_vars(Tick)

\* the tracker with two buckets: users come and go in either room, offers
\* are made in the first one
TrackerRoomPair == {1, 2}

AddUserEitherRoom == AddUserIn(TrackerRoomPair)
RemoveUserEitherRoom == RemoveUserIn(TrackerRoomPair)

NextTrackerRooms ==
    \/ AddUserEitherRoom
    \/ RemoveUserEitherRoom
    \/ HandleOffer

SpecTrackerRooms == Init /\ [][NextTrackerRooms]_vars

-----------------------------------------------------------------------------
(* Socket handler (handleSocketConnection, RoomManager.js lines 155-679) *)

\* an outbound event as one session receives it
Event(event, to, sender, target) ==
    [event |-> event, to |-> to, sender |-> sender, target |-> target]

\* the 'error' events of the handlers, tagged with their type
ErrorEvents == {"error:join-room-failed", "error:offer-error", "error:offer-failed",
                "error:answer-error", "error:answer-failed",
                "error:ice-candidate-error", "error:recording-permission-denied"}

\* socket.emit(event, ...): to the session itself
EmitToSelf(s, event, target) == {Event(event, s, s, target)}

\* the sessions socket.to(roomId) reaches: the connected members of the
\* socket.io room other than the sender
OthersInRoom(socks, s, roomId) ==
    {t \in (DOMAIN socks) \ {s} : socks[t].connected /\ roomId \in socks[t].joined}

\* socket.to(roomId).emit(event, ...)
EmitToOthers(socks, s, roomId, event, target) ==
    {Event(event, t, s, target) : t \in OthersInRoom(socks, s, roomId)}

\* the connected members of the socket.io room, whom io.to(roomId) reaches
AllInRoom(socks, roomId) ==
    {t \in DOMAIN socks : socks[t].connected /\ roomId \in socks[t].joined}

\* io.to(roomId).emit(event, ...)
EmitToRoom(socks, s, roomId, event, target) ==
    {Event(event, t, s, target) : t \in AllInRoom(socks, roomId)}

\* socket.userId && socket.roomId
Bound(socks, s) == socks[s].userId # Null /\ socks[s].roomId # 0

\* handleUserLeave(socket, io)
HandleUserLeave(rms, urm, conns, socks, s) ==
    IF Bound(socks, s)
    THEN LET result == RegistryLeave(rms, urm, socks[s].userId)
             removed == TrackerRemoveUser(conns, socks[s].roomId, socks[s].userId)
         IN [rooms |-> result.rooms,
             userRoomMap |-> result.userRoomMap,
             connections |-> removed.connections,
             sockets |-> IF result.found
                         THEN [socks EXCEPT ![s].joined = @ \ {socks[s].roomId}]
                         ELSE socks,
             emitted |-> IF result.found
                         THEN EmitToOthers(socks, s, socks[s].roomId,
                                           "user-disconnected", "")
                         ELSE {},
             left |-> result.found]
    ELSE [rooms |-> rms, userRoomMap |-> urm, connections |-> conns,
          sockets |-> socks, emitted |-> {}, left |-> FALSE]

\* POST /api/rooms, while uuidv4 has handed out fewer than cap identifiers
HttpPostRooms(cap) ==
    /\ nextRoomId <= cap
    /\ \E settings \in HttpSettings :
         /\ rooms' = MapSet(rooms, nextRoomId,
                            CreatedRoom(settings.maxUsers, settings.requirePassword))
         /\ last' = Last("POST /api/rooms", nextRoomId, "", "", "ok", "",
                         settings.maxUsers, 0)
    /\ nextRoomId' = nextRoomId + 1
    /\ emitted' = {}
    /\ UNCHANGED <<limiterVars, userRoomMap, trackerVars, now, sockets,
                   historyVars>>

HttpCreateRoom == HttpPostRooms(MaxRooms)

\* socket.on('join-room'); roomId 0 stands for a payload without roomId
SocketJoinRoom ==
    \E s \in DOMAIN sockets, roomId \in {0} \cup RoomIds, password \in JoinPasswords :
        /\ sockets[s].connected
        /\ IF roomId = 0
           THEN /\ emitted' = EmitToSelf(s, "error:join-room-failed", "")
                /\ last' = LastWith("join-room", roomId, s, "",
                                    "Missing required fields", "", 0,
                                    UserRoomId(userRoomMap, s), password)
                /\ UNCHANGED <<rooms, userRoomMap, connections, sockets>>
           ELSE LET res == RegistryJoin(rooms, userRoomMap, roomId, s, password) IN
                /\ rooms' = res.rooms
                /\ userRoomMap' = res.userRoomMap
                /\ last' = LastWith("join-room", roomId, s, "",
                                    IF res.error = "" THEN "ok" ELSE res.error,
                                    res.user.role, Len(res.room.users),
                                    UserRoomId(userRoomMap, s), password)
                /\ IF res.error = ""
                   THEN /\ connections' = TrackerAddUser(connections, roomId, s)
                        /\ sockets' = [sockets EXCEPT ![s].joined = @ \cup {roomId},
                                                      ![s].userId = s,
                                                      ![s].roomId = roomId]
                        /\ emitted' = EmitToSelf(s, "room-joined", "")
                                      \cup EmitToOthers(sockets, s, roomId,
                                                        "user-connected", "")
                   ELSE /\ emitted' = EmitToSelf(s, "error:join-room-failed", "")
                        /\ UNCHANGED <<connections, sockets>>
        /\ UNCHANGED <<limiterVars, nextRoomId, pendingOffers, now,
                       historyVars>>

\* socket.on('offer')
SocketOffer ==
    \E s \in DOMAIN sockets : \E target \in (DOMAIN sockets) \ {s} :
        /\ sockets[s].connected
        /\ IF ~Bound(sockets, s)
           THEN /\ emitted' = EmitToSelf(s, "error:offer-error", target)
                /\ last' = Last("offer", 0, s, target, "User not in room", "", 0, 0)
                /\ UNCHANGED <<trackerVars, historyVars>>
           ELSE LET roomId == sockets[s].roomId
                    res == TrackerHandleOffer(connections, pendingOffers, roomId,
                                              sockets[s].userId, target, now)
                IN /\ connections' = res.connections
                   /\ pendingOffers' = res.pendingOffers
                   /\ UNCHANGED offersHandled
                   /\ last' = Last("offer", roomId, s, target,
                                   IF res.connectionId # Null THEN "ok"
                                   ELSE "offer-failed", "", 0, 0)
                   /\ IF res.connectionId # Null
                      THEN /\ emitted' = EmitToOthers(sockets, s, roomId, "offer", target)
                           /\ offersRelayed' = offersRelayed \cup
                                {<<t, s>> : t \in OthersInRoom(sockets, s, roomId)}
                      ELSE /\ emitted' = EmitToSelf(s, "error:offer-failed", target)
                           /\ UNCHANGED offersRelayed
        /\ UNCHANGED <<limiterVars, registryVars, now, sockets>>

\* socket.on('answer')
SocketAnswer ==
    \E s \in DOMAIN sockets : \E target \in (DOMAIN sockets) \ {s} :
        /\ sockets[s].connected
        /\ IF ~Bound(sockets, s)
           THEN /\ emitted' = EmitToSelf(s, "error:answer-error", target)
                /\ last' = Last("answer", 0, s, target, "User not in room", "", 0, 0)
                /\ UNCHANGED connections
           ELSE LET roomId == sockets[s].roomId
                    res == TrackerHandleAnswer(connections, roomId,
                                               sockets[s].userId, target)
                IN /\ connections' = res.connections
                   /\ last' = Last("answer", roomId, s, target,
                                   IF res.success THEN "ok" ELSE "answer-failed",
                                   "", 0, 0)
                   /\ emitted' = IF res.success
                                 THEN EmitToOthers(sockets, s, roomId, "answer", target)
                                 ELSE EmitToSelf(s, "error:answer-failed", target)
        /\ UNCHANGED <<limiterVars, registryVars, pendingOffers, now,
                       sockets, historyVars>>

\* socket.on('leave-room')
SocketLeaveRoom ==
    \E s \in DOMAIN sockets :
        /\ sockets[s].connected
        /\ LET res == HandleUserLeave(rooms, userRoomMap, connections, sockets, s) IN
           /\ rooms' = res.rooms
           /\ userRoomMap' = res.userRoomMap
           /\ connections' = res.connections
           /\ sockets' = res.sockets
           /\ emitted' = res.emitted
           /\ last' = Last("leave-room", sockets[s].roomId, s, "",
                           IF res.left THEN "ok" ELSE "none", "", 0,
                           UserRoomId(userRoomMap, s))
        /\ UNCHANGED <<limiterVars, nextRoomId, pendingOffers, now,
                       historyVars>>

\* socket.on('disconnect'): the transport then drops the session from every
\* socket.io room
SocketDisconnect ==
    \E s \in DOMAIN sockets :
        /\ sockets[s].connected
        /\ LET res == HandleUserLeave(rooms, userRoomMap, connections, sockets, s) IN
           /\ rooms' = res.rooms
           /\ userRoomMap' = res.userRoomMap
           /\ connections' = res.connections
           /\ sockets' = [res.sockets EXCEPT ![s].connected = FALSE,
                                             ![s].joined = {}]
           /\ emitted' = res.emitted
           /\ last' = Last("disconnect", sockets[s].roomId, s, "",
                           IF res.left THEN "ok" ELSE "none", "", 0,
                           UserRoomId(userRoomMap, s))
        /\ UNCHANGED <<limiterVars, nextRoomId, pendingOffers, now,
                       historyVars>>

\* the setInterval of the RoomManager constructor
SweepEmptyRooms ==
    /\ rooms' = RegistryCleanup(rooms)
    /\ emitted' = {}
    /\ last' = Last("cleanupEmptyRooms", 0, "", "", "ok", "",
                    Cardinality(DOMAIN rooms) - Cardinality(DOMAIN RegistryCleanup(rooms)),
                    0)
    /\ UNCHANGED <<limiterVars, userRoomMap, nextRoomId, trackerVars, now,
                   sockets, historyVars>>

Next ==
    \/ HttpCreateRoom
    \/ SocketJoinRoom
    \/ SocketOffer
    \/ SocketAnswer
    \/ SocketLeaveRoom
    \/ SocketDisconnect
    \/ SweepEmptyRooms

Spec == Init /\ [][Next]_vars

-----------------------------------------------------------------------------
(* The HTTP surface alone: a burst of POST /api/rooms requests that all     *)
(* come from one source address at one instant (the clock stands still)    *)

HttpCreateRoomBurst == HttpPostRooms(RoomCreationMax + 1)

NextHttp ==
    \/ HttpCreateRoomBurst

SpecHttp == Init /\ [][NextHttp]_vars

-----------------------------------------------------------------------------
(* Offers among three sessions that share one room *)

SignalingSessions == {"a", "b", "c"}

InitSignaling == InitWith(SignalingSessions)

\* POST /api/rooms, once
HttpCreateFirstRoom == HttpPostRooms(1)

NextSignaling ==
    \/ HttpCreateFirstRoom
    \/ SocketJoinRoom
    \/ SocketOffer

SpecSignaling == InitSignaling /\ [][NextSignaling]_vars

-----------------------------------------------------------------------------
(* checkSocketRateLimit (middleware/rateLimiter.js, src/unnamed/part_000) *)

\* socket.handshake.address and eventType of the calls
Addresses == {"10.0.0.1", "10.0.0.2"}
EventTypes == {"offer"}

\* `${socket.handshake.address}-${eventType}`
LimiterKey(address, eventType) == address \o "-" \o eventType

LimiterKeys == {LimiterKey(ad, ev) : ad \in Addresses, ev \in EventTypes}

\* checkSocketRateLimit with the test of line 64 written count > maxEvents
CheckSocketRateLimitOneMore(limiter, key, time, maxEvents, windowMs) ==
    IF key \notin DOMAIN limiter
    THEN [limiter |-> MapSet(limiter, key,
                             [count |-> 1, resetTime |-> time + windowMs]),
          allowed |-> TRUE]
    ELSE IF time > limiter[key].resetTime
    THEN [limiter |-> [limiter EXCEPT ![key] =
                          [count |-> 1, resetTime |-> time + windowMs]],
          allowed |-> TRUE]
    ELSE IF limiter[key].count > maxEvents
    THEN [limiter |-> limiter, allowed |-> FALSE]
    ELSE [limiter |-> [limiter EXCEPT ![key].count = @ + 1], allowed |-> TRUE]

\* checkSocketRateLimit(socket, eventType, maxEvents, windowMs) at Date.now()
\* = time: the map afterwards and the value returned
CheckSocketRateLimit(limiter, key, time, maxEvents, windowMs) ==
    IF key \notin DOMAIN limiter
    THEN [limiter |-> MapSet(limiter, key,
                             [count |-> 1, resetTime |-> time + windowMs]),
          allowed |-> TRUE]
    ELSE IF time > limiter[key].resetTime
    THEN [limiter |-> [limiter EXCEPT ![key] =
                          [count |-> 1, resetTime |-> time + windowMs]],
          allowed |-> TRUE]
    ELSE IF limiter[key].count >= maxEvents
    THEN [limiter |-> limiter, allowed |-> FALSE]
    ELSE [limiter |-> [limiter EXCEPT ![key].count = @ + 1], allowed |-> TRUE]

\* the setInterval of lines 108-115
LimiterCleanup(limiter, time) ==
    [k \in {x \in DOMAIN limiter : ~(time > limiter[x].resetTime)} |-> limiter[k]]

\* history: key has an open window at time, one that started with an
\* accepted call no more than windowMs ago
InWindow(windows, key, time, windowMs) ==
    key \in DOMAIN windows /\ time <= windows[key].start + windowMs

\* history: the windows after a call on key at time that returned allowed
WindowAfter(windows, key, time, windowMs, allowed) ==
    IF ~allowed THEN windows
    ELSE IF InWindow(windows, key, time, windowMs)
    THEN [windows EXCEPT ![key].accepted = @ + 1]
    ELSE MapSet(windows, key, [start |-> time, accepted |-> 1])

\* a call of checkSocketRateLimit with the default maxEvents and windowMs
CheckLimit ==
    \E address \in Addresses, eventType \in EventTypes :
        LET key == LimiterKey(address, eventType)
            res == CheckSocketRateLimit(socketEventLimiter, key, now,
                                        DefaultMaxEvents, DefaultWindowMs)
        IN /\ socketEventLimiter' = res.limiter
           /\ limiterWindow' = WindowAfter(limiterWindow, key, now,
                                           DefaultWindowMs, res.allowed)
           /\ last' = Last("checkSocketRateLimit", 0, key, "",
                           IF res.allowed THEN "true" ELSE "false", "", 0, 0)
           /\ UNCHANGED <<registryVars, trackerVars, now, sockets, emitted,
                          historyVars>>

\* the cleanup interval fires
CleanupLimiter ==
    /\ socketEventLimiter' = LimiterCleanup(socketEventLimiter, now)
    /\ last' = Last("cleanupLimiter", 0, "", "", "ok", "",
                    Cardinality(DOMAIN socketEventLimiter)
                      - Cardinality(DOMAIN LimiterCleanup(socketEventLimiter, now)),
                    0)
    /\ UNCHANGED <<registryVars, trackerVars, now, sockets, emitted,
                   historyVars, limiterWindow>>

\* time passes, until a window that opened one tick late has elapsed too
LimiterTick ==
    /\ now < 2 * DefaultWindowMs
    /\ now' = now + TickMs
    /\ last' = Last("tick", 0, "", "", "", "", 0, 0)
    /\ UNCHANGED <<registryVars, trackerVars, sockets, emitted, historyVars,
                   limiterVars>>

NextLimiter ==
    \/ CheckLimit
    \/ CleanupLimiter
    \/ LimiterTick

SpecLimiter == Init /\ [][NextLimiter]_vars

-----------------------------------------------------------------------------
(* Socket handler: the events that carry no offer or answer *)

\* socket.on('ice-candidate')
SocketIceCandidate ==
    \E s \in DOMAIN sockets : \E target \in (DOMAIN sockets) \ {s} :
        /\ sockets[s].connected
        /\ IF ~Bound(sockets, s)
           THEN /\ emitted' = EmitToSelf(s, "error:ice-candidate-error", target)
                /\ last' = Last("ice-candidate", 0, s, target,
                                "User not in room", "", 0, 0)
           ELSE /\ emitted' = EmitToOthers(sockets, s, sockets[s].roomId,
                                           "ice-candidate", target)
                /\ last' = Last("ice-candidate", sockets[s].roomId, s, target,
                                "ok", "", 0, 0)
        /\ UNCHANGED <<registryVars, trackerVars, now, sockets, historyVars,
                       limiterVars>>

\* socket.on('send-message')
SocketSendMessage ==
    \E s \in DOMAIN sockets :
        /\ sockets[s].connected
        /\ LET roomId == sockets[s].roomId
               sent == /\ Bound(sockets, s)
                       /\ GetRoom(rooms, roomId)
                       /\ RoomHasUser(rooms[roomId], sockets[s].userId)
           IN /\ emitted' = IF sent
                            THEN EmitToRoom(sockets, s, roomId, "new-message", "")
                            ELSE {}
              /\ last' = Last("send-message", roomId, s, "",
                              IF sent THEN "ok" ELSE "none", "", 0, 0)
        /\ UNCHANGED <<registryVars, trackerVars, now, sockets, historyVars,
                       limiterVars>>

\* the test of lines 531 and 555 without the role: any participant passes
IsHostOfAnyRole(room, userId) == RoomHasUser(room, userId)

\* user && user.role === 'host' (lines 531, 555, 577, 603)
IsHostOf(room, userId) ==
    RoomHasUser(room, userId) /\ RoomGetUser(room, userId).role = "host"

\* socket.on('start-recording')
SocketStartRecording ==
    \E s \in DOMAIN sockets :
        /\ sockets[s].connected
        /\ LET roomId == sockets[s].roomId IN
           IF Bound(sockets, s) /\ GetRoom(rooms, roomId)
           THEN LET role == RoomGetUser(rooms[roomId], sockets[s].userId).role IN
                IF IsHostOf(rooms[roomId], sockets[s].userId)
                THEN /\ rooms' = [rooms EXCEPT ![roomId].recordingEnabled = TRUE]
                     /\ emitted' = EmitToOthers(sockets, s, roomId,
                                                "recording-started", "")
                     /\ last' = Last("start-recording", roomId, s, "", "ok",
                                     role, 0, 0)
                ELSE /\ emitted' = EmitToSelf(s, "error:recording-permission-denied",
                                              "")
                     /\ last' = Last("start-recording", roomId, s, "", "denied",
                                     role, 0, 0)
                     /\ UNCHANGED rooms
           ELSE /\ emitted' = {}
                /\ last' = Last("start-recording", roomId, s, "", "none", "", 0, 0)
                /\ UNCHANGED rooms
        /\ UNCHANGED <<userRoomMap, nextRoomId, trackerVars, now, sockets,
                       historyVars, limiterVars>>

\* socket.on('stop-recording')
SocketStopRecording ==
    \E s \in DOMAIN sockets :
        /\ sockets[s].connected
        /\ LET roomId == sockets[s].roomId IN
           IF /\ Bound(sockets, s)
              /\ GetRoom(rooms, roomId)
              /\ IsHostOf(rooms[roomId], sockets[s].userId)
           THEN /\ rooms' = [rooms EXCEPT ![roomId].recordingEnabled = FALSE]
                /\ emitted' = EmitToOthers(sockets, s, roomId,
                                           "recording-stopped", "")
                /\ last' = Last("stop-recording", roomId, s, "", "ok",
                                "host", 0, 0)
           ELSE /\ emitted' = {}
                /\ last' = Last("stop-recording", roomId, s, "", "none", "", 0, 0)
                /\ UNCHANGED rooms
        /\ UNCHANGED <<userRoomMap, nextRoomId, trackerVars, now, sockets,
                       historyVars, limiterVars>>

\* Array.from(io.sockets.sockets.values()).find(...) of line 605: the
\* connected session bound to targetUserId and to the room
HasTargetSocket(socks, roomId, targetUserId) ==
    /\ targetUserId \in DOMAIN socks
    /\ socks[targetUserId].connected
    /\ socks[targetUserId].userId = targetUserId
    /\ socks[targetUserId].roomId = roomId

\* socket.on('remove-participant'): handleUserLeave(targetSocket), then
\* targetSocket.disconnect() runs the target's 'disconnect' handler, which
\* calls handleUserLeave once more
SocketRemoveParticipant ==
    \E s \in DOMAIN sockets, target \in DOMAIN sockets :
        /\ sockets[s].connected
        /\ LET roomId == sockets[s].roomId
               removes == /\ Bound(sockets, s)
                          /\ GetRoom(rooms, roomId)
                          /\ IsHostOf(rooms[roomId], sockets[s].userId)
                          /\ RoomHasUser(rooms[roomId], target)
                          /\ HasTargetSocket(sockets, roomId, target)
               first == HandleUserLeave(rooms, userRoomMap, connections,
                                        sockets, target)
               second == HandleUserLeave(first.rooms, first.userRoomMap,
                                         first.connections, first.sockets, target)
           IN IF removes
              THEN /\ rooms' = second.rooms
                   /\ userRoomMap' = second.userRoomMap
                   /\ connections' = second.connections
                   /\ sockets' = [second.sockets EXCEPT ![target].connected = FALSE,
                                                        ![target].joined = {}]
                   /\ emitted' = {Event("removed-from-room", target, s, target)}
                                    \cup first.emitted \cup second.emitted
                   /\ last' = Last("remove-participant", roomId, s, target,
                                   "ok", "host", 0, UserRoomId(userRoomMap, target))
              ELSE /\ emitted' = {}
                   /\ last' = Last("remove-participant", roomId, s, target,
                                   "none", "", 0, UserRoomId(userRoomMap, target))
                   /\ UNCHANGED <<rooms, userRoomMap, connections, sockets>>
        /\ UNCHANGED <<nextRoomId, pendingOffers, now, historyVars, limiterVars>>

\* the handlers of 'toggle-audio', 'toggle-video', 'toggle-screen-share',
\* 'start-screen-share' and 'stop-screen-share' differ in the event name, the
\* media type, the values the flag can take and the notice sent to the others
SocketSetMedia(event, mediaType, values, notice, detail) ==
    \E s \in DOMAIN sockets, enabled \in values :
        /\ sockets[s].connected
        /\ IF Bound(sockets, s)
           THEN LET roomId == sockets[s].roomId
                    user == RegistryUpdateUserMedia(rooms, userRoomMap,
                                sockets[s].userId, mediaType, enabled)
                    mediaState == TrackerUpdateMediaState(connections, roomId,
                                      sockets[s].userId, mediaType, enabled)
                IN /\ rooms' = user.rooms
                   /\ connections' = mediaState.connections
                   /\ emitted' = IF user.found /\ mediaState.found
                                 THEN EmitToOthers(sockets, s, roomId,
                                                   notice, detail)
                                 ELSE {}
                   /\ last' = LastWith(event, roomId, s, "",
                                       IF user.found /\ mediaState.found
                                       THEN "ok" ELSE "none", "", 0, 0,
                                       IF enabled THEN "true" ELSE "false")
           ELSE /\ emitted' = {}
                /\ last' = LastWith(event, 0, s, "", "none", "", 0, 0,
                                    IF enabled THEN "true" ELSE "false")
                /\ UNCHANGED <<rooms, connections>>
        /\ UNCHANGED <<userRoomMap, nextRoomId, pendingOffers, now, sockets,
                       historyVars, limiterVars>>

\* the three toggles take the flag from the event and announce it with
\* 'user-media-changed' and the media type
SocketToggle(event, mediaType) ==
    SocketSetMedia(event, mediaType, BOOLEAN, "user-media-changed", mediaType)

\* socket.on('toggle-audio')
SocketToggleAudio == SocketToggle("toggle-audio", "audio")

\* socket.on('toggle-video')
SocketToggleVideo == SocketToggle("toggle-video", "video")

\* socket.on('toggle-screen-share')
SocketToggleScreenShare == SocketToggle("toggle-screen-share", "screen")

\* socket.on('start-screen-share'): the screen flag goes on, announced with
\* 'user-started-screen-share'
SocketStartScreenShare ==
    SocketSetMedia("start-screen-share", "screen", {TRUE},
                   "user-started-screen-share", "")

\* socket.on('stop-screen-share'): the screen flag goes off, announced with
\* 'user-stopped-screen-share'
SocketStopScreenShare ==
    SocketSetMedia("stop-screen-share", "screen", {FALSE},
                   "user-stopped-screen-share", "")

\* socket.on('mute-participant')
SocketMuteParticipant ==
    \E s \in DOMAIN sockets, target \in DOMAIN sockets :
        /\ sockets[s].connected
        /\ LET roomId == sockets[s].roomId
               mutes == /\ Bound(sockets, s)
                        /\ GetRoom(rooms, roomId)
                        /\ IsHostOf(rooms[roomId], sockets[s].userId)
                        /\ RoomHasUser(rooms[roomId], target)
           IN IF mutes
              THEN /\ rooms' = RegistryUpdateUserMedia(rooms, userRoomMap, target,
                                                       "audio", FALSE).rooms
                   /\ connections' = TrackerUpdateMediaState(connections, roomId,
                                         target, "audio", FALSE).connections
                   /\ emitted' = EmitToRoom(sockets, s, roomId,
                                            "participant-muted", target)
                   /\ last' = Last("mute-participant", roomId, s, target, "ok",
                                   "host", 0, 0)
              ELSE /\ emitted' = {}
                   /\ last' = Last("mute-participant", roomId, s, target, "none",
                                   "", 0, 0)
                   /\ UNCHANGED <<rooms, connections>>
        /\ UNCHANGED <<userRoomMap, nextRoomId, pendingOffers, now, sockets,
                       historyVars, limiterVars>>

\* the media controls with the events that change who is in a room
NextMedia ==
    \/ HttpCreateFirstRoom
    \/ SocketJoinRoom
    \/ SocketToggleAudio
    \/ SocketToggleVideo
    \/ SocketToggleScreenShare
    \/ SocketStartScreenShare
    \/ SocketStopScreenShare
    \/ SocketMuteParticipant
    \/ SocketLeaveRoom

SpecMedia == Init /\ [][NextMedia]_vars

NextSession ==
    \/ HttpCreateRoom
    \/ SocketJoinRoom
    \/ SocketIceCandidate
    \/ SocketSendMessage
    \/ SocketStartRecording
    \/ SocketStopRecording
    \/ SocketRemoveParticipant
    \/ SocketLeaveRoom
    \/ SocketDisconnect
    \/ SweepEmptyRooms

SpecSession == Init /\ [][NextSession]_vars

\* the recording controls with the events that change who the host is
NextRecording ==
    \/ HttpCreateRoom
    \/ SocketJoinRoom
    \/ SocketStartRecording
    \/ SocketStopRecording
    \/ SocketLeaveRoom

SpecRecording == Init /\ [][NextRecording]_vars

-----------------------------------------------------------------------------
(* Properties of the room registry (SpecRegistry) *)

\* C1: every room in the directory has a participant count less than or
\* equal to its capacity (maxUsers).
C1_CountWithinCapacity ==
    \A r \in DOMAIN rooms : Len(rooms[r].users) <= rooms[r].maxUsers

\* C2: every non-empty room has exactly one participant whose role is host.
C2_ExactlyOneHost ==
    \A r \in DOMAIN rooms :
        Len(rooms[r].users) > 0 => Cardinality(RoomHosts(rooms[r])) = 1

\* a host has left a room in which at least two participants remain
C2_Witness ==
    /\ last.op = "leaveRoom"
    /\ last.result = "ok"
    /\ last.role = "host"
    /\ last.room \in DOMAIN rooms
    /\ Len(rooms[last.room].users) >= 2

RoomsOf(rms, userId) == {r \in DOMAIN rms : RoomHasUser(rms[r], userId)}

\* C3: no participant identifier is in the participant maps of two rooms at
\* once, and a joinRoom(B, p) that adds p to B while p was a participant of
\* another room A leaves p out of A's map and out of the reverse index for A,
\* with A deleted if p was its only participant and a single host in A
\* otherwise.
C3_AtMostOneRoom ==
    [][ /\ \A p \in UserIds : Cardinality(RoomsOf(rooms', p)) <= 1
        /\ \A A \in DOMAIN rooms :
             LET p == last'.user
                 B == last'.room
             IN (/\ last'.op = "joinRoom"
                 /\ last'.result = "ok"
                 /\ A # B
                 /\ RoomHasUser(rooms[A], p))
                => /\ RoomsOf(rooms', p) = {B}
                   /\ userRoomMap'[p] = B
                   /\ Len(rooms[A].users) = 1 => ~GetRoom(rooms', A)
                   /\ Len(rooms[A].users) > 1 =>
                        /\ GetRoom(rooms', A)
                        /\ RoomUserIds(rooms'[A]) = RoomUserIds(rooms[A]) \ {p}
                        /\ Cardinality(RoomHosts(rooms'[A])) = 1
      ]_vars

\* p switched from a room that survives to another room
C3_Witness ==
    /\ last.op = "joinRoom"
    /\ last.result = "ok"
    /\ last.prev # 0
    /\ last.prev # last.room
    /\ last.prev \in DOMAIN rooms
    /\ last.room \in DOMAIN rooms
    /\ RoomHasUser(rooms[last.room], last.user)

\* C4: a leaveRoom that removes the last participant of a room deletes the
\* room in the same operation (getRoom returns absent right after it), and
\* no operation leaves a room it has emptied in the directory.
C4_EmptiedRoomDeleted ==
    [][ /\ (/\ last'.op = "leaveRoom"
            /\ last'.result = "ok"
            /\ RoomUserIds(rooms[last'.room]) = {last'.user})
           => ~GetRoom(rooms', last'.room)
        /\ \A r \in DOMAIN rooms :
             (Len(rooms[r].users) > 0 /\ GetRoom(rooms', r))
             => Len(rooms'[r].users) > 0
      ]_vars

\* leaveRoom returned a room with no participants, and the room is gone
C4_Witness ==
    /\ last.op = "leaveRoom"
    /\ last.result = "ok"
    /\ last.size = 0
    /\ ~GetRoom(rooms, last.room)

\* C9 as stated: joinRoom on a room whose participant count equals its
\* capacity fails with the room-full error and does not add the joiner.
C9_FullRoomRejectsAnyJoin ==
    [][ \A r \in DOMAIN rooms :
          (/\ last'.op = "joinRoom"
           /\ last'.room = r
           /\ Len(rooms[r].users) = rooms[r].maxUsers)
          => /\ last'.result = "Room is full"
             /\ RoomsOf(rooms', last'.user) # {r}
      ]_vars

\* C9 amended: joinRoom with an accepted password, by a joiner who is not a
\* participant of the room, on a room whose participant count equals its
\* capacity fails with the room-full error and leaves the room as it was; a
\* successful joiner of an empty room is host, of a non-empty room participant.
C9_FullRoomRejectsNewJoiner ==
    [][ \A r \in DOMAIN rooms :
          (/\ last'.op = "joinRoom"
           /\ last'.room = r
           /\ ~RoomHasUser(rooms[r], last'.user))
          => /\ (/\ Len(rooms[r].users) = rooms[r].maxUsers
                 /\ last'.result # "Invalid room password")
                => /\ last'.result = "Room is full"
                   /\ GetRoom(rooms', r)
                   /\ rooms'[r] = rooms[r]
             /\ last'.result = "ok"
                => /\ RoomHasUser(rooms'[r], last'.user)
                   /\ Len(rooms[r].users) < rooms[r].maxUsers
                   /\ last'.role = IF Len(rooms[r].users) = 0
                                   THEN "host" ELSE "participant"
      ]_vars

\* the scenario: capacity 2, host and participant inside, third joiner rejected
C9_Witness ==
    /\ last.op = "joinRoom"
    /\ last.result = "Room is full"
    /\ last.room \in DOMAIN rooms
    /\ rooms[last.room].maxUsers = 2
    /\ Len(rooms[last.room].users) = 2
    /\ rooms[last.room].users[1].role = "host"
    /\ rooms[last.room].users[2].role = "participant"
    /\ ~RoomHasUser(rooms[last.room], last.user)

\* the operation of this step took p out of room r
Departs(p, r) ==
    /\ last'.user = p
    /\ RoomHasUser(rooms[r], p)
    /\ \/ last'.op = "leaveRoom" /\ last'.result = "ok"
       \/ /\ last'.op = "joinRoom"
          /\ last'.result \in {"ok", "Room is full", "User already in room"}

\* the participant of room that joined earliest among those other than p
EarliestOther(room, p) ==
    LET others == {i \in 1..Len(room.users) : room.users[i].userId # p}
    IN room.users[CHOOSE i \in others : \A j \in others : i <= j].userId

\* C10: when the host leaves a room in which others remain, the remaining
\* participant that joined earliest becomes host and nobody else does; when a
\* non-host leaves, every remaining participant keeps its role.
C10_HostSuccession ==
    [][ \A r \in DOMAIN rooms : \A p \in UserIds :
          (Departs(p, r) /\ Len(rooms[r].users) > 1)
          => /\ GetRoom(rooms', r)
             /\ \A q \in RoomUserIds(rooms[r]) \ {p} :
                  /\ RoomHasUser(rooms'[r], q)
                  /\ RoomGetUser(rooms'[r], q).role =
                       IF /\ RoomGetUser(rooms[r], p).role = "host"
                          /\ q = EarliestOther(rooms[r], p)
                       THEN "host"
                       ELSE RoomGetUser(rooms[r], q).role
      ]_vars

\* the host left two others behind; the earlier of them is host, the later not
C10_Witness ==
    /\ last.op = "leaveRoom"
    /\ last.result = "ok"
    /\ last.role = "host"
    /\ last.room \in DOMAIN rooms
    /\ Len(rooms[last.room].users) = 2
    /\ rooms[last.room].users[1].role = "host"
    /\ rooms[last.room].users[2].role = "participant"

-----------------------------------------------------------------------------
(* Properties of the peer-connection tracker (SpecTracker) *)

\* C5: once handleOffer(room, A, B) has been processed and its link A-B,
\* stored under A, is connecting with A and B tracked, handleAnswer(room, B, A)
\* returns success and that link becomes connected.
C5_AnswerConnectsOfferedLink ==
    [][ \A r \in TrackerRoomIds : \A A \in TrackerUserIds : \A B \in TrackerUserIds :
          (/\ last'.op = "handleAnswer"
           /\ last'.room = r /\ last'.user = B /\ last'.peer = A
           /\ <<r, A, B>> \in offersHandled
           /\ Tracked(connections, r, B)
           /\ LinkStatus(connections, r, A, B) = "connecting")
          => /\ last'.result = "true"
             /\ LinkStatus(connections', r, A, B) = "connected"
      ]_vars

\* C6: handleAnswer(room, B, A) returns failure and changes no link status
\* whenever no handleOffer(room, A, B) has been processed before it.
C6_AnswerWithoutOfferFails ==
    [][ \A r \in TrackerRoomIds : \A A \in TrackerUserIds : \A B \in TrackerUserIds :
          (/\ last'.op = "handleAnswer"
           /\ last'.room = r /\ last'.user = B /\ last'.peer = A
           /\ <<r, A, B>> \notin offersHandled)
          => /\ last'.result = "false"
             /\ connections' = connections
      ]_vars

\* C8: the expired-offer sweep removes exactly the pending offers whose age
\* exceeds 30000 ms and keeps the others unchanged, the pendingOffers count of
\* getStats afterwards is the number of pending offers not older than the
\* threshold, and no operation removes a pending offer that has not exceeded
\* the threshold.
C8_SweepRemovesExactlyExpired ==
    [][ /\ last'.op = "cleanupPendingOffers" =>
             LET kept == {c \in DOMAIN pendingOffers :
                            now - pendingOffers[c].timestamp <= 30000}
             IN /\ DOMAIN pendingOffers' = kept
                /\ \A c \in kept : pendingOffers'[c] = pendingOffers[c]
                /\ StatsPendingOffers(pendingOffers') = Cardinality(kept)
                /\ last'.size = Cardinality(DOMAIN pendingOffers) - Cardinality(kept)
        /\ \A c \in DOMAIN pendingOffers :
             c \notin DOMAIN pendingOffers' =>
                /\ last'.op = "cleanupPendingOffers"
                /\ now - pendingOffers[c].timestamp > 30000
      ]_vars

\* a sweep has removed an offer and kept one whose age is exactly the threshold
C8_Witness ==
    /\ last.op = "cleanupPendingOffers"
    /\ last.size >= 1
    /\ \E c \in DOMAIN pendingOffers : now - pendingOffers[c].timestamp = 30000

-----------------------------------------------------------------------------
(* Properties of the socket handler (Spec) *)

\* C7: when a bound session B that was relayed an offer from A sends the
\* answer event with target A, the answer is relayed to A's session and B
\* receives no error event.
C7_AnswerIsRelayed ==
    [][ \A A \in SocketIds : \A B \in SocketIds :
          (/\ last'.op = "answer"
           /\ last'.user = B /\ last'.peer = A
           /\ Bound(sockets, B)
           /\ <<B, A>> \in offersRelayed)
          => /\ Event("answer", A, B, A) \in emitted'
             /\ \A e \in emitted' : ~(e.to = B /\ e.event \in ErrorEvents)
      ]_vars

-----------------------------------------------------------------------------
(* Properties of joinRoom and createRoom (SpecRegistry) *)

JoinRejections == {"Room not found", "Room is not active", "Invalid room password"}

\* C16: joinRoom fails with room-not-found when the identifier is not in the
\* directory, with room-inactive when the room is deactivated, and with
\* invalid-password when the room requires a password and the supplied one
\* differs; a joinRoom that fails in one of these ways leaves every room and
\* the reverse index as they were, the caller's current membership included.
C16_RejectedJoinChangesNothing ==
    [][last'.op = "joinRoom"
          => LET r == last'.room IN
             /\ r \notin DOMAIN rooms => last'.result = "Room not found"
             /\ (r \in DOMAIN rooms /\ ~rooms[r].isActive)
                   => last'.result = "Room is not active"
             /\ ( /\ r \in DOMAIN rooms
                  /\ rooms[r].isActive
                  /\ rooms[r].requirePassword
                  /\ rooms[r].password # last'.arg )
                   => last'.result = "Invalid room password"
             /\ last'.result \in JoinRejections
                   => (rooms' = rooms /\ userRoomMap' = userRoomMap)
      ]_vars

\* a participant of one room was refused by another room for its password
\* and is still a participant of the first
C16_Witness ==
    /\ last.op = "joinRoom"
    /\ last.result = "Invalid room password"
    /\ last.prev # 0
    /\ last.prev # last.room
    /\ UserRoomId(userRoomMap, last.user) = last.prev
    /\ GetRoom(rooms, last.prev)
    /\ RoomHasUser(rooms[last.prev], last.user)

\* what a createRoom step does apart from the capacity: it succeeds and
\* stores a room that is active and empty under an identifier the directory
\* does not hold, leaving the other rooms alone, and no room of the
\* directory has a capacity above 50
CreatesFreshRoom ==
    /\ last'.result = "ok"
    /\ last'.room \notin DOMAIN rooms
    /\ DOMAIN rooms' = DOMAIN rooms \cup {last'.room}
    /\ \A x \in DOMAIN rooms : rooms'[x] = rooms[x]
    /\ rooms'[last'.room].isActive
    /\ rooms'[last'.room].users = <<>>
    /\ \A x \in DOMAIN rooms' : rooms'[x].maxUsers <= MaxUsersCeiling

\* C18 as stated: createRoom always succeeds and stores a new room, active
\* and empty, under a fresh identifier, with capacity min(requested, 50)
\* when the settings carry a maxUsers and 10 otherwise; no room ever has a
\* capacity above 50.
C18_CapacityOfAnyRequest ==
    [][last'.op = "createRoom"
          => /\ CreatesFreshRoom
             /\ rooms'[last'.room].maxUsers =
                   IF last'.arg = "maxUsers"
                   THEN Min(last'.size, MaxUsersCeiling)
                   ELSE DefaultMaxUsers
      ]_vars

\* C18 amended: createRoom always succeeds and stores a new room, active and
\* empty, under a fresh identifier, with capacity min(requested, 50) when the
\* settings carry a maxUsers other than 0 and 10 otherwise; no room ever
\* has a capacity above 50.
C18_CapacityOfNonZeroRequest ==
    [][last'.op = "createRoom"
          => /\ CreatesFreshRoom
             /\ rooms'[last'.room].maxUsers =
                   IF last'.arg = "maxUsers" /\ last'.size # 0
                   THEN Min(last'.size, MaxUsersCeiling)
                   ELSE DefaultMaxUsers
      ]_vars

\* a request for 60 participants produced a room of capacity 50
C18_Witness ==
    /\ last.op = "createRoom"
    /\ last.arg = "maxUsers"
    /\ last.size > MaxUsersCeiling
    /\ GetRoom(rooms, last.room)
    /\ rooms[last.room].maxUsers = MaxUsersCeiling
    /\ rooms[last.room].isActive
    /\ RoomIsEmpty(rooms[last.room])

-----------------------------------------------------------------------------
(* Properties of the recording controls (SpecRecording) *)

\* C11: when a bound session whose participant is not the host of its room
\* sends start-recording, only the sender receives an event, which is the
\* permission-denied error, and no store changes, so recordingEnabled keeps
\* its value; and the recordingEnabled of a room goes from false to true
\* only in a start-recording step whose sender is the host of that room.
C11_RecordingHostOnly ==
    [][/\ ( /\ last'.op = "start-recording"
            /\ Bound(sockets, last'.user)
            /\ GetRoom(rooms, sockets[last'.user].roomId)
            /\ RoomHasUser(rooms[sockets[last'.user].roomId], last'.user)
            /\ last'.user \notin RoomHosts(rooms[sockets[last'.user].roomId]) )
          => /\ emitted' = EmitToSelf(last'.user,
                                      "error:recording-permission-denied", "")
             /\ rooms' = rooms
             /\ UNCHANGED <<userRoomMap, connections, pendingOffers, sockets>>
       /\ \A r \in DOMAIN rooms' :
             ( /\ rooms'[r].recordingEnabled
               /\ r \in DOMAIN rooms => ~rooms[r].recordingEnabled )
             => /\ r \in DOMAIN rooms
                /\ last'.op = "start-recording"
                /\ sockets[last'.user].roomId = r
                /\ last'.user \in RoomHosts(rooms[r])
      ]_vars

\* a participant who is not the host was denied while the room was recording
C11_Witness ==
    /\ last.op = "start-recording"
    /\ last.result = "denied"
    /\ last.role = "participant"
    /\ GetRoom(rooms, last.room)
    /\ rooms[last.room].recordingEnabled
    /\ emitted = EmitToSelf(last.user, "error:recording-permission-denied", "")

-----------------------------------------------------------------------------
(* Properties of the HTTP surface (SpecHttp) *)

\* C12: of the POST /api/rooms requests from one source address within one
\* hour at most 10 create a room: a request that arrives when 10 rooms have
\* been created from the address is rejected and leaves the room directory
\* unchanged. (In SpecHttp every request comes from the same address at the
\* same instant, and nextRoomId - 1 counts the rooms created.)
C12_CreationRateLimited ==
    [][(last'.op = "POST /api/rooms" /\ nextRoomId - 1 >= RoomCreationMax)
          => (last'.result # "ok" /\ rooms' = rooms)]_vars

-----------------------------------------------------------------------------
(* Properties of the session state machine (SpecSession) *)

\* C13: a session becomes bound (socket.userId and socket.roomId set) only
\* in a successful join-room step of its own, and once its leave-room, its
\* disconnect or its removal by the host has been processed, a session that
\* is still connected is unbound again, so that the handlers of its later
\* events take the not-in-room branch.
C13_UnboundAfterTeardown ==
    [][/\ \A s \in DOMAIN sockets :
             (~Bound(sockets, s) /\ Bound(sockets', s))
             => (last'.op = "join-room" /\ last'.user = s /\ last'.result = "ok")
       /\ last'.op \in {"leave-room", "disconnect"}
             => ( ~sockets'[last'.user].connected
                  \/ ~Bound(sockets', last'.user) )
       /\ (last'.op = "remove-participant" /\ last'.result = "ok")
             => ( ~sockets'[last'.peer].connected
                  \/ ~Bound(sockets', last'.peer) )
      ]_vars

\* the events of SpecSession that require a bound session
GuardedEvents == {"ice-candidate", "send-message", "start-recording",
                  "stop-recording", "remove-participant"}

\* C14: an inbound event other than join-room that arrives from an unbound
\* session changes no store, emits nothing to any other session, and makes
\* the handler emit an error event to the sending session.
C14_UnboundEventRejected ==
    [][(last'.op \in GuardedEvents /\ ~Bound(sockets, last'.user))
          => /\ UNCHANGED <<rooms, userRoomMap, connections, pendingOffers,
                            sockets>>
             /\ \A e \in emitted' : e.to = last'.user
             /\ \E e \in emitted' : e.to = last'.user /\ e.event \in ErrorEvents
      ]_vars

\* userId is still held by a store: the reverse index, a room of the
\* directory, or a bucket of the tracker
HeldAnywhere(rms, urm, conns, userId) ==
    \/ userId \in DOMAIN urm
    \/ \E r \in DOMAIN rms : RoomHasUser(rms[r], userId)
    \/ \E r \in DOMAIN conns : userId \in DOMAIN conns[r]

\* the session a teardown step acts on: the sender of leave-room and
\* disconnect, the target of a remove-participant that found its target
TornDown(l) ==
    IF l.op \in {"leave-room", "disconnect"} THEN l.user
    ELSE IF l.op = "remove-participant" /\ l.result = "ok" THEN l.peer
    ELSE Null

\* C15: a teardown event of a session (leave-room, disconnect, removal by
\* the host) cleans the session up completely: afterwards no store holds its
\* participant, and every other connected participant of the room it was in
\* is sent user-disconnected; a teardown event of a session that no store
\* holds any more changes no store and emits no notification.
C15_TeardownExactlyOnce ==
    [][TornDown(last') # Null
          => LET s == TornDown(last') IN
             /\ ~HeldAnywhere(rooms', userRoomMap', connections', s)
             /\ \A r \in DOMAIN rooms : \A t \in (DOMAIN sockets) \ {s} :
                   ( /\ RoomHasUser(rooms[r], s)
                     /\ RoomHasUser(rooms[r], t)
                     /\ sockets[t].connected )
                   => Event("user-disconnected", t, s, "") \in emitted'
             /\ ~HeldAnywhere(rooms, userRoomMap, connections, s)
                   => /\ UNCHANGED <<rooms, userRoomMap, connections>>
                      /\ \A e \in emitted' : e.event # "user-disconnected"
      ]_vars

\* C20: a successful join-room, in one step, adds the participant to the
\* room of the directory and to the tracker bucket of the same room, binds
\* the session to that room and participant, sends room-joined to the
\* joiner, built from a room whose other participants are exactly those of
\* the directory's room, and sends user-connected to every other connected
\* participant of the room; a failed join-room emits only the error event
\* to the joiner.
C20_JoinIsAtomic ==
    [][last'.op = "join-room"
          => LET s == last'.user
                 r == last'.room
             IN IF last'.result = "ok"
                THEN /\ GetRoom(rooms', r)
                     /\ RoomHasUser(rooms'[r], s)
                     /\ Tracked(connections', r, s)
                     /\ sockets'[s].userId = s
                     /\ sockets'[s].roomId = r
                     /\ Event("room-joined", s, s, "") \in emitted'
                     /\ last'.size = Len(rooms'[r].users)
                     /\ \A t \in (DOMAIN sockets) \ {s} :
                           (sockets[t].connected /\ RoomHasUser(rooms'[r], t))
                           => Event("user-connected", t, s, "") \in emitted'
                ELSE emitted' = EmitToSelf(s, "error:join-room-failed", "")
      ]_vars

\* C23: a remove-participant event takes effect only when the sender is the
\* host of the room it is bound to and the target is a participant of that
\* room with a live session bound to it; then the target is sent
\* removed-from-room, it is taken out of the registry and the tracker, every
\* remaining participant is sent user-disconnected, and the target's
\* session is disconnected, so that afterwards neither store holds the
\* target; in every other case, a sender that is not the host included,
\* nothing changes and nothing is emitted.
C23_OnlyHostRemoves ==
    [][last'.op = "remove-participant"
          => LET s == last'.user
                 target == last'.peer
                 r == sockets[s].roomId
             IN IF /\ Bound(sockets, s)
                   /\ GetRoom(rooms, r)
                   /\ s \in RoomHosts(rooms[r])
                   /\ RoomHasUser(rooms[r], target)
                   /\ sockets[target].connected
                   /\ sockets[target].userId = target
                   /\ sockets[target].roomId = r
                THEN /\ Event("removed-from-room", target, s, target) \in emitted'
                     /\ ~HeldAnywhere(rooms', userRoomMap', connections', target)
                     /\ \A t \in (DOMAIN sockets) \ {target} :
                           (sockets[t].connected /\ RoomHasUser(rooms[r], t))
                           => Event("user-disconnected", t, target, "") \in emitted'
                     /\ ~sockets'[target].connected
                ELSE /\ UNCHANGED <<rooms, userRoomMap, connections, sockets>>
                     /\ emitted' = {}
      ]_vars

-----------------------------------------------------------------------------
(* Properties of the offer relay (SpecSignaling) *)

\* C17: when the tracker accepts an offer, the outbound offer event is
\* delivered to the session of the named target and to no other session;
\* when handleOffer returns null nothing is relayed and only the sender
\* receives an event, which is an error.
C17_OfferReachesOnlyTarget ==
    [][last'.op = "offer"
          => /\ last'.result = "ok"
                  => emitted' = {Event("offer", last'.peer, last'.user, last'.peer)}
             /\ last'.result = "offer-failed"
                  => emitted' = EmitToSelf(last'.user, "error:offer-failed",
                                           last'.peer)
      ]_vars

-----------------------------------------------------------------------------
(* Properties of checkSocketRateLimit (SpecLimiter) *)

\* C19: for each (address, event type) key, checkSocketRateLimit accepts at
\* most maxEvents calls within one window of windowMs that starts at the
\* first accepted call; a further call within that window is rejected at
\* once and leaves the counters as they are; a call made when no window is
\* open (none yet, or the last one has elapsed) is accepted; and a call on
\* one key neither reads nor changes the entry of another key.
C19_AtMostMaxEventsPerWindow ==
    [][last'.op = "checkSocketRateLimit"
          => LET key == last'.user
                 open == InWindow(limiterWindow, key, now, DefaultWindowMs)
             IN /\ (open /\ limiterWindow[key].accepted >= DefaultMaxEvents)
                      => /\ last'.result = "false"
                         /\ socketEventLimiter' = socketEventLimiter
                /\ (open /\ limiterWindow[key].accepted < DefaultMaxEvents)
                      => last'.result = "true"
                /\ ~open => last'.result = "true"
                /\ \A k \in DOMAIN limiterWindow' :
                      limiterWindow'[k].accepted <= DefaultMaxEvents
                /\ \A k \in LimiterKeys \ {key} :
                      /\ k \in DOMAIN socketEventLimiter'
                            <=> k \in DOMAIN socketEventLimiter
                      /\ k \in DOMAIN socketEventLimiter
                            => socketEventLimiter'[k] = socketEventLimiter[k]
      ]_vars

\* a call was rejected on a key whose window holds maxEvents accepted calls,
\* after an earlier window of the key had elapsed, while another key is
\* part-way through its own window
C19_Witness ==
    /\ last.op = "checkSocketRateLimit"
    /\ last.result = "false"
    /\ limiterWindow[last.user].accepted = DefaultMaxEvents
    /\ limiterWindow[last.user].start > 0
    /\ \E k \in (DOMAIN socketEventLimiter) \ {last.user} :
          /\ socketEventLimiter[k].count < DefaultMaxEvents
          /\ ~(now > socketEventLimiter[k].resetTime)

-----------------------------------------------------------------------------
(* Properties of the media controls (SpecMedia) *)

ToggleEvents == {"toggle-audio", "toggle-video", "toggle-screen-share"}

MediaTypeOf(event) ==
    IF event = "toggle-audio" THEN "audio"
    ELSE IF event = "toggle-video" THEN "video"
    ELSE "screen"

\* the registry flag of a user record that goes with a media type
UserFlag(user, mediaType) ==
    IF mediaType = "audio" THEN user.isAudioEnabled
    ELSE IF mediaType = "video" THEN user.isVideoEnabled
    ELSE user.isScreenSharing

\* userId is a participant of the room the reverse index gives for it
InRegistry(rms, urm, userId) ==
    /\ userId \in DOMAIN urm
    /\ urm[userId] \in DOMAIN rms
    /\ RoomHasUser(rms[urm[userId]], userId)

\* every user record and tracker entry other than those of userId in
\* roomId is the same before and after the step
OthersUntouched(roomId, userId) ==
    /\ DOMAIN rooms' = DOMAIN rooms
    /\ \A r \in DOMAIN rooms :
          /\ Len(rooms'[r].users) = Len(rooms[r].users)
          /\ \A i \in 1..Len(rooms[r].users) :
                rooms[r].users[i].userId # userId
                => rooms'[r].users[i] = rooms[r].users[i]
    /\ DOMAIN connections' = DOMAIN connections
    /\ \A r \in DOMAIN connections :
          /\ DOMAIN connections'[r] = DOMAIN connections[r]
          /\ \A u \in DOMAIN connections[r] :
                (r # roomId \/ u # userId)
                => connections'[r][u] = connections[r][u]

\* C21: a toggle-audio, toggle-video or toggle-screen-share event with value
\* e from a bound session sets the matching flag to e in the participant's
\* registry record and in its tracker media state, wherever the store holds
\* the participant; user-media-changed goes to the other sessions of the
\* room if and only if both stores held it, and to nobody otherwise; no
\* other participant's record or entry changes.
C21_ToggleUpdatesBothStores ==
    [][(last'.op \in ToggleEvents /\ Bound(sockets, last'.user))
          => LET s == last'.user
                 r == sockets[s].roomId
                 mediaType == MediaTypeOf(last'.op)
                 e == (last'.arg = "true")
                 inRegistry == InRegistry(rooms, userRoomMap, s)
                 inTracker == Tracked(connections, r, s)
             IN /\ inRegistry
                     => UserFlag(RoomGetUser(rooms'[userRoomMap[s]], s),
                                 mediaType) = e
                /\ inTracker => connections'[r][s].mediaState[mediaType] = e
                /\ emitted' =
                     IF inRegistry /\ inTracker
                     THEN {Event("user-media-changed", t, s, mediaType) :
                             t \in OthersInRoom(sockets, s, r)}
                     ELSE {}
                /\ OthersUntouched(r, s)
      ]_vars

\* a participant switched its video off, both stores say so, and the other
\* session of the room was told
C21_Witness ==
    /\ last.op = "toggle-video"
    /\ last.arg = "false"
    /\ last.result = "ok"
    /\ InRegistry(rooms, userRoomMap, last.user)
    /\ ~RoomGetUser(rooms[last.room], last.user).isVideoEnabled
    /\ Tracked(connections, last.room, last.user)
    /\ ~connections[last.room][last.user].mediaState.video
    /\ \E e \in emitted : e.event = "user-media-changed" /\ e.to # last.user

\* C22: a mute-participant event changes state only when the sender is the
\* host of the room it is bound to and the target is a participant of that
\* room: then the target's audio flag is false in the registry and in the
\* tracker, participant-muted goes to every session of the room, and nobody
\* else's media state changes; otherwise no store changes and nothing is
\* emitted.
C22_OnlyHostMutes ==
    [][last'.op = "mute-participant"
          => LET s == last'.user
                 target == last'.peer
                 r == sockets[s].roomId
             IN IF /\ Bound(sockets, s)
                   /\ GetRoom(rooms, r)
                   /\ s \in RoomHosts(rooms[r])
                   /\ RoomHasUser(rooms[r], target)
                THEN /\ ~RoomGetUser(rooms'[r], target).isAudioEnabled
                     /\ Tracked(connections', r, target)
                     /\ ~connections'[r][target].mediaState.audio
                     /\ emitted' = {Event("participant-muted", t, s, target) :
                                      t \in AllInRoom(sockets, r)}
                     /\ OthersUntouched(r, target)
                ELSE /\ UNCHANGED <<rooms, userRoomMap, connections, sockets>>
                     /\ emitted' = {}
      ]_vars

\* the host muted the other participant: its audio is off in both stores
\* and both sessions of the room were sent participant-muted
C22_Witness ==
    /\ last.op = "mute-participant"
    /\ last.result = "ok"
    /\ last.peer # last.user
    /\ last.user \in RoomHosts(rooms[last.room])
    /\ ~RoomGetUser(rooms[last.room], last.peer).isAudioEnabled
    /\ ~connections[last.room][last.peer].mediaState.audio
    /\ Event("participant-muted", last.peer, last.user, last.peer) \in emitted
    /\ Event("participant-muted", last.user, last.user, last.peer) \in emitted


-----------------------------------------------------------------------------
(* Properties of the tracker's operations (SpecTracker, SpecTrackerRooms) *)

\* every entry of the tracker except that of userId in roomId is the same
\* before and after the step, and so is the set of rooms and participants
OtherEntriesUnchanged(roomId, userId) ==
    /\ DOMAIN connections' = DOMAIN connections
    /\ \A r \in DOMAIN connections :
          /\ DOMAIN connections'[r] = DOMAIN connections[r]
          /\ \A u \in DOMAIN connections[r] :
                (r # roomId \/ u # userId) => connections'[r][u] = connections[r][u]

\* C24: handleOffer, through createPeerConnection, returns absent and changes
\* neither the tracker nor the pending offers when the room has no bucket or
\* when from or to is not tracked in it; otherwise it returns the identifier
\* from-to, stores a link with status connecting towards to under from's
\* entry and nowhere else (every other entry, the target's included, and
\* from's other links and media state are unchanged), and stages a pending
\* offer under that identifier with the current timestamp, leaving the other
\* pending offers as they were.
C24_OfferCreatesInitiatorLink ==
    [][last'.op = "handleOffer" =>
        LET r == last'.room
            f == last'.user
            t == last'.peer
        IN IF Tracked(connections, r, f) /\ Tracked(connections, r, t)
           THEN LET before == connections[r][f]
                    after == connections'[r][f]
                    id == f \o "-" \o t
                IN /\ last'.result = id
                   /\ OtherEntriesUnchanged(r, f)
                   /\ after.mediaState = before.mediaState
                   /\ DOMAIN after.peers = DOMAIN before.peers \cup {t}
                   /\ after.peers[t] = [connectionId |-> id, status |-> "connecting"]
                   /\ \A x \in DOMAIN before.peers \ {t} :
                         after.peers[x] = before.peers[x]
                   /\ DOMAIN pendingOffers' = DOMAIN pendingOffers \cup {id}
                   /\ pendingOffers'[id] =
                         [roomId |-> r, fromUserId |-> f, toUserId |-> t,
                          timestamp |-> now]
                   /\ \A c \in DOMAIN pendingOffers \ {id} :
                         pendingOffers'[c] = pendingOffers[c]
           ELSE /\ last'.result = Null
                /\ connections' = connections
                /\ pendingOffers' = pendingOffers]_vars

\* an offer from a to b has just been accepted after the clock advanced: the
\* link is stored under a only, b's entry has no link, and the offer is staged
C24_Witness ==
    /\ last.op = "handleOffer" /\ last.user = "a" /\ last.peer = "b"
    /\ last.result = "a-b"
    /\ now > 0
    /\ LinkStatus(connections, last.room, "a", "b") = "connecting"
    /\ DOMAIN connections[last.room]["b"].peers = {}
    /\ "a-b" \in DOMAIN pendingOffers /\ pendingOffers["a-b"].timestamp = now

\* C25: removeUser on a tracked participant returns true, removes the
\* participant's entry (and with it the links the participant initiated),
\* deletes the room's bucket exactly when that entry was the last one, and
\* leaves the other entries of the room, the other rooms and the pending
\* offers unchanged; removeUser on an untracked participant returns false and
\* changes nothing; addUser on a tracked participant changes nothing.
C25_RemoveAndAddFrame ==
    [][LET r == last'.room
           p == last'.user
       IN /\ last'.op = "removeUser" =>
               /\ pendingOffers' = pendingOffers
               /\ IF Tracked(connections, r, p)
                  THEN /\ last'.result = "true"
                       /\ ~Tracked(connections', r, p)
                       /\ r \in DOMAIN connections' <=> DOMAIN connections[r] # {p}
                       /\ DOMAIN connections' \ {r} = DOMAIN connections \ {r}
                       /\ \A x \in DOMAIN connections \ {r} :
                             connections'[x] = connections[x]
                       /\ r \in DOMAIN connections' =>
                             /\ DOMAIN connections'[r] = DOMAIN connections[r] \ {p}
                             /\ \A u \in DOMAIN connections'[r] :
                                   connections'[r][u] = connections[r][u]
                  ELSE /\ last'.result = "false"
                       /\ connections' = connections
          /\ (last'.op = "addUser" /\ Tracked(connections, r, p)) =>
               /\ connections' = connections
               /\ pendingOffers' = pendingOffers]_vars

\* a, who had offered to b in room 1, has just been removed from it while b
\* stays there and somebody is tracked in room 2
C25_Witness ==
    /\ last.op = "removeUser" /\ last.room = 1 /\ last.user = "a"
    /\ last.result = "true"
    /\ <<1, "a", "b">> \in offersHandled
    /\ "a-b" \in DOMAIN pendingOffers
    /\ Tracked(connections, 1, "b") /\ ~Tracked(connections, 1, "a")
    /\ 2 \in DOMAIN connections

\* C26: the expired-offer sweep changes nothing but the pending-offer table:
\* the tracker's rooms, participants, links and link statuses are the same
\* after it as before, also for a link in status connecting whose pending
\* offer the sweep has just removed, and the registry, the sessions and the
\* clock are untouched.
C26_SweepKeepsLinks ==
    [][last'.op = "cleanupPendingOffers" =>
        /\ connections' = connections
        /\ \A c \in DOMAIN pendingOffers \ DOMAIN pendingOffers' :
              LET d == pendingOffers[c]
              IN LinkStatus(connections', d.roomId, d.fromUserId, d.toUserId) =
                 LinkStatus(connections, d.roomId, d.fromUserId, d.toUserId)
        /\ UNCHANGED <<registryVars, now, sockets, emitted>>]_vars

\* the only offer ever made, from a to b, has just been swept and its link
\* is still there in status connecting
C26_Witness ==
    /\ last.op = "cleanupPendingOffers"
    /\ last.size = 1
    /\ offersHandled = {<<1, "a", "b">>}
    /\ "a-b" \notin DOMAIN pendingOffers
    /\ LinkStatus(connections, 1, "a", "b") = "connecting"

-----------------------------------------------------------------------------
(* Properties of the registry's consistency (SpecRegistry) *)

\* C27: whenever the empty-room sweep runs after any sequence of createRoom,
\* joinRoom and leaveRoom calls, the directory contains no empty room, and
\* every room that exists before the sweep still exists after it.
C27_SweepFindsNothing ==
    [][last'.op = "cleanupEmptyRooms" =>
        /\ \A r \in DOMAIN rooms : Len(rooms[r].users) # 0
        /\ DOMAIN rooms \subseteq DOMAIN rooms']_vars

\* C28: the reverse index and the directory agree in every reachable state:
\* userRoomMap maps participant p to room r exactly when r is in the
\* directory and p is in r's participant map, and therefore totalUsers of
\* getStats equals the number of participants held by the rooms of the
\* directory.
C28_IndexAgreesWithDirectory ==
    /\ \A p \in UserIds, r \in RoomIds :
          (p \in DOMAIN userRoomMap /\ userRoomMap[p] = r)
             <=> (r \in DOMAIN rooms /\ RoomHasUser(rooms[r], p))
    /\ RegistryTotalUsers =
          Cardinality({x \in (DOMAIN rooms) \X UserIds :
                          RoomHasUser(rooms[x[1]], x[2])})

-----------------------------------------------------------------------------
(* Properties of the dispatcher's bookkeeping (SpecSession, SpecMedia) *)

\* C29: after every dispatcher event the tracker and the registry hold the
\* same membership: p is tracked in the bucket of room r exactly when p is a
\* participant of room r in the registry, and every tracker bucket belongs to
\* a room of the directory.
C29_TrackerMatchesRegistry ==
    /\ \A p \in UserIds, r \in RoomIds :
          Tracked(connections, r, p)
             <=> (r \in DOMAIN rooms /\ RoomHasUser(rooms[r], p))
    /\ DOMAIN connections \subseteq DOMAIN rooms

\* C30: for every participant held by both stores, the registry flags
\* isAudioEnabled, isVideoEnabled and isScreenSharing equal the audio, video
\* and screen fields of the tracker's mediaState, after every event.
C30_MediaCopiesAgree ==
    \A p \in UserIds, r \in RoomIds :
        (r \in DOMAIN rooms /\ RoomHasUser(rooms[r], p) /\ Tracked(connections, r, p)) =>
            LET user == rooms[r].users[UserIndex(rooms[r].users, p)]
                mediaState == connections[r][p].mediaState
            IN /\ user.isAudioEnabled = mediaState.audio
               /\ user.isVideoEnabled = mediaState.video
               /\ user.isScreenSharing = mediaState.screen

-----------------------------------------------------------------------------
(* Properties of the tracker's links and pending offers (SpecTracker) *)

\* C31: in every reachable tracker state each link stored under participant
\* a towards participant b in room r has both a and b tracked in r, so that
\* totalConnections of getRoomConnections counts only links between tracked
\* participants.
C31_LinksBetweenTracked ==
    \A r \in DOMAIN connections :
        /\ \A a \in DOMAIN connections[r] :
              \A b \in DOMAIN connections[r][a].peers : Tracked(connections, r, b)
        /\ RoomTotalConnections(connections, r) =
              Cardinality({x \in (DOMAIN connections[r]) \X (DOMAIN connections[r]) :
                              x[2] \in DOMAIN connections[r][x[1]].peers})

\* C32: every entry of the pending-offer table belongs to an existing link in
\* status connecting between two participants tracked in the entry's room.
C32_PendingOfferHasConnectingLink ==
    \A c \in DOMAIN pendingOffers :
        LET d == pendingOffers[c]
        IN /\ Tracked(connections, d.roomId, d.fromUserId)
           /\ Tracked(connections, d.roomId, d.toUserId)
           /\ LinkStatus(connections, d.roomId, d.fromUserId, d.toUserId) = "connecting"

-----------------------------------------------------------------------------
(* Properties of failed joins and of the broadcast groups (SpecSession) *)

\* the session's binding names the room in which the registry holds it
BindingMatches(socks, rms, urm, s) ==
    /\ socks[s].userId = s
    /\ InRegistry(rms, urm, s)
    /\ urm[s] = socks[s].roomId

\* C33: a join-room that fails with room full or duplicate participant
\* leaves the caller as it was: the directory and the reverse index are
\* unchanged (the caller is still in its previous room with its previous
\* role, and that room still exists), and a session binding that matched the
\* registry before the attempt still matches it.
C33_FailedJoinKeepsCaller ==
    [][(/\ last'.op = "join-room"
        /\ last'.result \in {"Room is full", "User already in room"}) =>
          /\ rooms' = rooms
          /\ userRoomMap' = userRoomMap
          /\ BindingMatches(sockets, rooms, userRoomMap, last'.user)
                => BindingMatches(sockets', rooms', userRoomMap', last'.user)]_vars

\* C34: a session is in the broadcast group of room r, and so receives r's
\* events, only while the registry holds it as a participant of r, and an
\* ice-candidate event is relayed into room r only when its sender is a
\* participant of r.
C34_TrafficOnlyForParticipants ==
    [][/\ \A s \in DOMAIN sockets' : \A r \in sockets'[s].joined :
             r \in DOMAIN rooms' /\ RoomHasUser(rooms'[r], s)
       /\ (last'.op = "ice-candidate" /\ last'.result = "ok") =>
             /\ last'.room \in DOMAIN rooms
             /\ RoomHasUser(rooms[last'.room], last'.user)]_vars

-----------------------------------------------------------------------------
(* Properties of the link status over time (SpecTracker, SpecSweep) *)

\* C35 as stated: once the link from a to b has status connected it stays
\* connected for as long as a is tracked; no offer, answer or sweep puts it
\* back to connecting.
C35_ConnectedStaysConnected ==
    [][\A r \in TrackerRoomIds, a \in TrackerUserIds, b \in TrackerUserIds :
         (/\ LinkStatus(connections, r, a, b) = "connected"
          /\ Tracked(connections', r, a))
            => LinkStatus(connections', r, a, b) = "connected"]_vars

\* C35: a link from a to b with status connected stays connected until a is
\* removed from the tracker or a new offer from a to b is handled, which
\* stores a fresh link with status connecting in its place; no answer, no
\* sweep, no offer between other pairs and no addUser changes it.
C35_ConnectedUntilRemovedOrReoffered ==
    [][\A r \in TrackerRoomIds, a \in TrackerUserIds, b \in TrackerUserIds :
         (/\ LinkStatus(connections, r, a, b) = "connected"
          /\ LinkStatus(connections', r, a, b) # "connected")
            => \/ /\ last'.op = "removeUser"
                  /\ last'.room = r /\ last'.user = a
                  /\ ~Tracked(connections', r, a)
               \/ /\ last'.op = "handleOffer"
                  /\ last'.room = r /\ last'.user = a /\ last'.peer = b
                  /\ LinkStatus(connections', r, a, b) = "connecting"]_vars

\* the sweep has just removed an offer while the link from a to b, already
\* connected, is still connected
C35_Witness ==
    /\ last.op = "cleanupPendingOffers"
    /\ last.size >= 1
    /\ LinkStatus(connections, 1, "a", "b") = "connected"

\* the connection identifiers of the participants of the tracker
OfferIds == {ConnectionId(a, b) : a \in TrackerUserIds, b \in TrackerUserIds}

\* C36: with the sweep running again and again and time advancing, every
\* staged pending offer is eventually removed from the pending-offer table,
\* answered or not and with its participants tracked or not, and once offers
\* have stopped arriving the table becomes empty and stays empty.
C36_PendingOffersEventuallySwept ==
    /\ \A c \in OfferIds :
          (c \in DOMAIN pendingOffers) ~> (c \notin DOMAIN pendingOffers)
    /\ <>[](DOMAIN pendingOffers = {})

\* the sweep has just emptied the table of an offer from a to b that was
\* made and whose participants are no longer tracked
C36_Witness ==
    /\ last.op = "cleanupPendingOffers"
    /\ last.size >= 1
    /\ <<1, "a", "b">> \in offersHandled
    /\ DOMAIN pendingOffers = {}
    /\ DOMAIN connections = {}

====
